---- MODULE Spec2Model ----
(***************************************************************************)
(* Job lifecycle orchestration of the bsubio Go client (client.go):        *)
(* CreateAndSubmitJob, WaitForJob, GetJobResult, Process, ProcessFile.     *)
(* One top-level call runs against one remote job; the caller's context    *)
(* may be cancelled at any point; the remote service advances the job.     *)
(*                                                                         *)
(* Pointers are modelled as sequences: <<>> is nil, <<v>> points to v.     *)
(* Errors are the chain of wrapped messages: <<>> is the nil error,        *)
(* fmt.Errorf("label: %w", e) is <<label>> \o e.                           *)
(***************************************************************************)
EXTENDS Integers, Sequences, FiniteSets, TLC

VARIABLES
    op,         \* the top-level call being executed
    jobType,    \* the job type string the call is about
    fileOpened, \* history: outcome of os.Open in the ...FromFile calls
    pc,         \* position of the call in client.go
    cancelled,  \* ctx.Done() is closed
    cancelPc,   \* history: position of the call when the context was cancelled
    callsAtCancel, \* history: number of remote calls issued when cancelled
    waitsAtCancel, \* history: polling intervals elapsed when cancelled
    calls,      \* history: the remote calls issued so far, with their outcome
    waits,      \* history: polling intervals that elapsed (time.After fired)
    svcStatus,  \* status of the job on the remote service
    svcErrMsg,  \* error message of the job on the remote service
    svcErrCode, \* error code of the job on the remote service
    resp,       \* WaitForJob: the (resp, err) pair of the last GetJobWithResponse
    job,        \* CreateAndSubmitJob: createResp.JSON201.Data
    waitRet,    \* value returned by WaitForJob (finishedJob, err)
    result,     \* GetJobResult: the JobResult under construction
    resultRet,  \* value returned by GetJobResult (result, err)
    ret,        \* value returned by the top-level call
    payload,    \* the bytes of the caller's data source
    srcReads,   \* history: how many times the data source was read
    buf,        \* CreateAndSubmitJob: the multipart body (bytes.Buffer)
    sentBody,   \* history: the body sent with the upload request
    jobs,       \* MockServer.jobs
    uploadedData, \* MockServer.uploadedData
    uuidCount,  \* number of values uuid.New() has handed out
    inv,        \* the Process invocations running against the MockServer
    config,     \* NewBsubClient: the Config it is given
    client,     \* NewBsubClient: the (client, error) pair it returned
    wire,       \* the requests the client has put on the wire
    mu,         \* MockServer.mu
    hs          \* the handler goroutines of the MockServer

\* the caller's data and what CreateAndSubmitJob makes of it
dataVars == <<payload, srcReads, buf, sentBody>>

\* the mock service and the invocations running against it
mockVars == <<jobs, uploadedData, uuidCount, inv>>

\* the construction of the client and what it sends
ctorVars == <<config, client, wire>>

\* the lock of the mock service and the goroutines serving its requests
lockVars == <<mu, hs>>

vars == <<op, jobType, fileOpened, pc, cancelled, cancelPc, callsAtCancel,
          waitsAtCancel, calls, waits, svcStatus, svcErrMsg, svcErrCode, resp,
          job, waitRet, result, resultRet, ret, dataVars, mockVars, ctorVars,
          lockVars>>

----------------------------------------------------------------------------
\* Bounds

MaxFetches == 3
MaxLen == 2

----------------------------------------------------------------------------
\* Values

Nil == <<>>
Absent == "absent"
NoErr == <<>>
NoJob == "nojob"
TheJobId == "job-1"

JobStatusCreated == "created"
JobStatusLoaded == "loaded"
JobStatusPending == "pending"
JobStatusClaimed == "claimed"
JobStatusPreparing == "preparing"
JobStatusProcessing == "processing"
JobStatusFinished == "finished"
JobStatusFailed == "failed"

StatusOrder ==
    <<JobStatusCreated, JobStatusLoaded, JobStatusPending, JobStatusClaimed,
      JobStatusPreparing, JobStatusProcessing, JobStatusFinished, JobStatusFailed>>

Statuses == {StatusOrder[i] : i \in 1..Len(StatusOrder)}

Rank(s) == CHOOSE i \in 1..Len(StatusOrder) : StatusOrder[i] = s

\* the statuses from which the service makes no further transition
TerminalStatuses == {JobStatusFinished, JobStatusFailed}

ErrMsgs == {Absent, "boom"}
ErrCodes == {Absent, "TIMEOUT"}
JobTypes == {"test/linecount", "pandoc_md"}

TopLevelCalls ==
    {"CreateAndSubmitJob", "CreateAndSubmitJobFromFile", "WaitForJob",
     "GetJobResult", "Process", "ProcessFile"}

FromFileCalls == {"CreateAndSubmitJobFromFile", "ProcessFile"}
ProcessCalls == {"Process", "ProcessFile"}
WorkflowCalls == TopLevelCalls \ {"WaitForJob", "GetJobResult"}

\* ctx.Err()
CtxErr == <<"context canceled">>
\* a transport failure that is not a cancellation
NetErr == <<"connection error">>

\* fmt.Errorf(label + ": %w", err)
Wrap(label, err) == <<label>> \o err
\* fmt.Errorf(label)
Errorf(label) == <<label>>

\* errors.Is(err, ctx.Err())
IsCtxErr(err) == err # NoErr /\ err[Len(err)] = CtxErr[1]

----------------------------------------------------------------------------
\* Bytes.  A payload is a sequence over "a" (any byte but a newline) and "nl"
\* (the newline byte); the multipart framing adds pieces of several bytes.

PayloadBytes == {"a", "nl"}

RECURSIVE SeqsUpTo(_, _)
SeqsUpTo(S, n) ==
    IF n = 0 THEN {<<>>}
    ELSE LET shorter == SeqsUpTo(S, n - 1)
         IN shorter \cup {Append(q, x) : q \in {r \in shorter : Len(r) = n - 1}, x \in S}

\* "line1\nline2\nline3\nline4\nline5"
FiveLines == <<"a", "nl", "a", "nl", "a", "nl", "a", "nl", "a">>

Payloads == SeqsUpTo(PayloadBytes, MaxLen) \cup {FiveLines}

\* what multipart.Writer puts before and after the content of the one part:
\* the delimiter line, the two header lines of CreateFormFile("file",
\* "upload") and the empty line; then, on Close, the closing delimiter
PartHead == <<"--boundary", "crlf", "content-disposition", "crlf",
              "content-type", "crlf", "crlf">>
PartTail == <<"crlf", "--boundary--", "crlf">>

\* writer.CreateFormFile, io.Copy(part, data), writer.Close
Multipart(data) == PartHead \o data \o PartTail

\* the content of the part of a multipart body, as FormFile reads it
FormFile(body) == SubSeq(body, Len(PartHead) + 1, Len(body) - Len(PartTail))

\* number of bytes of a piece
Width(piece) ==
    CASE piece \in PayloadBytes -> 1
      [] piece = "crlf" -> 2
      [] piece = "--boundary" -> 62
      [] piece = "--boundary--" -> 64
      [] piece = "content-disposition" -> 62
      [] piece = "content-type" -> 38

\* len(data)
RECURSIVE ByteLen(_)
ByteLen(data) ==
    IF data = <<>> THEN 0 ELSE Width(Head(data)) + ByteLen(Tail(data))

----------------------------------------------------------------------------
\* The transport collaborator.  A round trip made with a context that is
\* already done fails with the context's error; otherwise it may succeed or
\* fail in any of the ways the caller distinguishes.

JSONOutcomes(ctxDone) ==
    IF ctxDone THEN {"ctxerr"} ELSE {"ok", "neterr", "badstatus", "nodata"}

CreateOutcomes(ctxDone) ==
    IF ctxDone THEN {"ctxerr"} ELSE {"ok", "neterr", "badstatus", "nodata", "notoken"}

PlainOutcomes(ctxDone) ==
    IF ctxDone THEN {"ctxerr"} ELSE {"ok", "neterr", "badstatus"}

BodyOutcomes(ctxDone) ==
    IF ctxDone THEN {"ctxerr"} ELSE {"ok", "neterr", "badstatus", "readerr"}

TransportErr(outcome) == IF outcome = "ctxerr" THEN CtxErr ELSE NetErr

IsErrOutcome(outcome) == outcome \in {"ctxerr", "neterr"}

\* whether the service acted on a request: always when it answered with
\* success, never when it answered with an error status, and either way
\* when the round trip broke
Applied(outcome) ==
    IF IsErrOutcome(outcome) THEN BOOLEAN
    ELSE IF outcome = "badstatus" THEN {FALSE} ELSE {TRUE}

\* Job as serialised by the service
Snapshot(status, msg, token) ==
    [id |-> TheJobId, type |-> jobType, status |-> status,
     errorCode |-> svcErrCode,
     errorMessage |-> msg, uploadToken |-> token]

Call(name, by, outcome, snap) ==
    [op |-> name, by |-> by, outcome |-> outcome, snap |-> snap]

----------------------------------------------------------------------------
\* variants of the terminal predicate: one that also accepts Processing, one
\* that forgets Failed
IsTerminal_AlsoProcessing(status) ==
    status # Absent /\ (status = JobStatusFinished \/ status = JobStatusFailed
                        \/ status = JobStatusProcessing)

IsTerminal_OnlyFinished(status) ==
    status # Absent /\ status = JobStatusFinished

\* Terminal predicate of the polling loop: job.Status != nil &&
\* (*job.Status == JobStatusFinished || *job.Status == JobStatusFailed)

IsTerminal(status) ==
    status # Absent /\ (status = JobStatusFinished \/ status = JobStatusFailed)

----------------------------------------------------------------------------
\* no mock server is running
MockUnused ==
    /\ jobs = <<>>
    /\ uploadedData = <<>>
    /\ uuidCount = 0
    /\ inv = <<>>

\* the client in use was built from a complete configuration and has sent
\* nothing that is being looked at
CtorUnused ==
    /\ config = [APIKey |-> "key-1", BaseURL |-> "http://mock", HTTPClient |-> Nil]
    /\ client = Nil
    /\ wire = <<>>

\* no request is being served
LockUnused ==
    /\ mu = [w |-> 0, held |-> FALSE, readers |-> {}]
    /\ hs = <<>>

Init ==
    /\ op \in TopLevelCalls
    /\ jobType \in JobTypes
    /\ fileOpened = "unopened"
    /\ pc = IF op \in FromFileCalls THEN "open"
            ELSE IF op = "WaitForJob" THEN "wf_select1"
            ELSE IF op = "GetJobResult" THEN "gr_getjob"
            ELSE "cs_create"
    /\ cancelled \in BOOLEAN
    /\ cancelPc = IF cancelled THEN "entry" ELSE "none"
    /\ callsAtCancel = 0
    /\ waitsAtCancel = 0
    /\ calls = <<>>
    /\ waits = 0
    /\ svcStatus \in IF op \in WorkflowCalls THEN {NoJob} ELSE Statuses
    /\ svcErrMsg \in IF svcStatus = JobStatusFailed THEN ErrMsgs ELSE {Absent}
    /\ svcErrCode \in IF svcStatus = JobStatusFailed THEN ErrCodes ELSE {Absent}
    /\ resp = [outcome |-> "none", snap |-> Nil]
    /\ job = Nil
    /\ waitRet = Nil
    /\ result = Nil
    /\ resultRet = Nil
    /\ ret = Nil
    /\ payload = FiveLines
    /\ srcReads = 0
    /\ buf = <<>>
    /\ sentBody = Nil
    /\ MockUnused
    /\ CtorUnused
    /\ LockUnused

----------------------------------------------------------------------------
\* Environment

\* the caller cancels the context, or its deadline passes
Cancel ==
    /\ ~cancelled
    /\ pc # "done"
    /\ cancelled' = TRUE
    /\ cancelPc' = pc
    /\ callsAtCancel' = Len(calls)
    /\ waitsAtCancel' = waits
    /\ UNCHANGED <<ctorVars, lockVars, mockVars, dataVars, op, jobType, fileOpened, pc, calls, waits, svcStatus,
                   svcErrMsg, svcErrCode, resp, job, waitRet, result,
                   resultRet, ret>>

\* the service moves a submitted job forward, possibly skipping waypoints
ServiceProgress ==
    /\ pc # "done"
    /\ svcStatus \in Statuses
    /\ Rank(svcStatus) >= Rank(JobStatusPending)
    /\ svcStatus \notin TerminalStatuses
    /\ \E s \in Statuses :
          /\ Rank(s) > Rank(svcStatus)
          /\ svcStatus' = s
          /\ svcErrMsg' \in IF s = JobStatusFailed THEN ErrMsgs ELSE {Absent}
          /\ svcErrCode' \in IF s = JobStatusFailed THEN ErrCodes ELSE {Absent}
    /\ UNCHANGED <<ctorVars, lockVars, mockVars, dataVars, op, jobType, fileOpened, pc, cancelled, cancelPc,
                   callsAtCancel, waitsAtCancel, calls, waits, resp, job,
                   waitRet, result, resultRet, ret>>

----------------------------------------------------------------------------
\* Returns.  A helper called from Process/ProcessFile hands its result to the
\* statement that follows the call; called directly, it ends the call.

\* return of CreateAndSubmitJob (and of CreateAndSubmitJobFromFile, which
\* returns it unchanged); Process lines 274-277
ReturnFromCreateAndSubmit(j, err) ==
    IF op \in ProcessCalls /\ err = NoErr
    THEN pc' = "wf_select1" /\ ret' = ret
    ELSE pc' = "done" /\ ret' = <<[val |-> j, err |-> err]>>

\* variant: Process reports a failed wait without its cause
ReturnFromWaitForJob_DropsCause(j, err) ==
    /\ waitRet' = <<[job |-> j, err |-> err]>>
    /\ IF op = "WaitForJob"
       THEN pc' = "done" /\ ret' = <<[val |-> j, err |-> err]>>
       ELSE IF err # NoErr
            THEN /\ pc' = "done"
                 /\ ret' = <<[val |-> Nil, err |-> Errorf("failed waiting for job")]>>
            ELSE pc' = "gr_getjob" /\ ret' = ret

\* variant: ProcessFile hands the error of the wait on as it is
ReturnFromWaitForJob_FileUnwrapped(j, err) ==
    /\ waitRet' = <<[job |-> j, err |-> err]>>
    /\ IF op = "WaitForJob"
       THEN pc' = "done" /\ ret' = <<[val |-> j, err |-> err]>>
       ELSE IF err # NoErr
            THEN /\ pc' = "done"
                 /\ ret' = <<[val |-> Nil,
                              err |-> IF op = "ProcessFile" THEN err
                                      ELSE Wrap("failed waiting for job", err)]>>
            ELSE pc' = "gr_getjob" /\ ret' = ret

\* return of WaitForJob; Process lines 280-283
ReturnFromWaitForJob(j, err) ==
    /\ waitRet' = <<[job |-> j, err |-> err]>>
    /\ IF op = "WaitForJob"
       THEN pc' = "done" /\ ret' = <<[val |-> j, err |-> err]>>
       ELSE IF err # NoErr
            THEN /\ pc' = "done"
                 /\ ret' = <<[val |-> Nil, err |-> Wrap("failed waiting for job", err)]>>
            ELSE pc' = "gr_getjob" /\ ret' = ret

\* variant: the result of GetJobResult is passed on whatever the wait saw
ReturnFromGetJobResult_NoFailedBranch(res, err) ==
    /\ pc' = "done"
    /\ resultRet' = <<[val |-> res, err |-> err]>>
    /\ ret' = <<[val |-> res, err |-> err]>>

\* return of GetJobResult; Process lines 285-295
ReturnFromGetJobResult(res, err) ==
    /\ pc' = "done"
    /\ resultRet' = <<[val |-> res, err |-> err]>>
    /\ IF op \in ProcessCalls /\ waitRet[1].job[1].status = JobStatusFailed
       THEN ret' = <<[val |-> res,
                      err |-> IF res # Nil /\ waitRet[1].job[1].errorMessage # Absent
                              THEN <<"job failed", waitRet[1].job[1].errorMessage>>
                              ELSE Errorf("job failed")]>>
       ELSE ret' = <<[val |-> res, err |-> err]>>

----------------------------------------------------------------------------
\* CreateAndSubmitJobFromFile / ProcessFile: os.Open(filePath)

\* variant: the error of os.Open is dropped
OpenFile_IgnoresError ==
    /\ pc = "open"
    /\ \E ok \in BOOLEAN :
          /\ pc' = "cs_create"
          /\ fileOpened' = IF ok THEN "ok" ELSE "failed"
    /\ UNCHANGED <<ctorVars, lockVars, mockVars, dataVars, op, jobType, cancelled, cancelPc, callsAtCancel,
                   waitsAtCancel, calls, waits, svcStatus, svcErrMsg,
                   svcErrCode, resp, job, waitRet, result, resultRet, ret>>

OpenFile ==
    /\ pc = "open"
    /\ \E ok \in BOOLEAN :
          IF ok
          THEN pc' = "cs_create" /\ ret' = ret /\ fileOpened' = "ok"
          ELSE /\ pc' = "done"
               /\ fileOpened' = "failed"
               /\ ret' = <<[val |-> Nil,
                            err |-> Wrap("failed to open file", <<"no such file">>)]>>
    /\ UNCHANGED <<ctorVars, lockVars, mockVars, dataVars, op, jobType, cancelled, cancelPc,
                   callsAtCancel, waitsAtCancel, calls, waits, svcStatus,
                   svcErrMsg, svcErrCode, resp, job, waitRet, result,
                   resultRet>>

----------------------------------------------------------------------------
\* CreateAndSubmitJob

\* c.CreateJobWithResponse(ctx, ...) and the checks of its response
CreateJobWith(ctxDone) ==
    /\ pc = "cs_create"
    /\ \E o \in CreateOutcomes(ctxDone) : \E a \in Applied(o) :
          LET snap == IF o = "ok"
                      THEN <<Snapshot(JobStatusCreated, Absent, "token-1")>>
                      ELSE IF o = "notoken"
                      THEN <<Snapshot(JobStatusCreated, Absent, Absent)>>
                      ELSE Nil
          IN /\ calls' = Append(calls, Call("CreateJob", "CreateAndSubmitJob", o, snap))
             /\ svcStatus' = IF a THEN JobStatusCreated ELSE svcStatus
             /\ IF IsErrOutcome(o)
                THEN /\ job' = job
                     /\ ReturnFromCreateAndSubmit(Nil,
                            Wrap("failed to create job", TransportErr(o)))
                ELSE IF o = "badstatus"
                THEN /\ job' = job
                     /\ ReturnFromCreateAndSubmit(Nil, Errorf("failed to create job: status"))
                ELSE IF o = "nodata"
                THEN /\ job' = job
                     /\ ReturnFromCreateAndSubmit(Nil, Errorf("unexpected response format"))
                ELSE IF snap[1].uploadToken = Absent
                THEN /\ job' = snap
                     /\ ReturnFromCreateAndSubmit(Nil, Errorf("no upload token in response"))
                ELSE /\ job' = snap
                     /\ pc' = "cs_copy"
                     /\ ret' = ret
    /\ UNCHANGED <<ctorVars, lockVars, mockVars, dataVars, op, jobType, fileOpened, cancelled, cancelPc,
                   callsAtCancel, waitsAtCancel, waits, svcErrMsg,
                   svcErrCode, resp, waitRet, result, resultRet>>

CreateJob == CreateJobWith(cancelled)

\* variant: the copy stops one byte short of the end of the data
CopyData_Truncates ==
    /\ pc = "cs_copy"
    /\ srcReads' = srcReads + 1
    /\ \E ok \in BOOLEAN :
          IF ok
          THEN /\ pc' = "cs_upload" /\ ret' = ret
               /\ buf' = Multipart(SubSeq(payload, 1, Len(payload) - 1))
          ELSE /\ ReturnFromCreateAndSubmit(Nil, Wrap("failed to copy data", <<"read error">>))
               /\ buf' = buf
    /\ UNCHANGED <<ctorVars, lockVars, mockVars, payload, sentBody, op, jobType, fileOpened, cancelled, cancelPc,
                   callsAtCancel, waitsAtCancel, calls, waits, svcStatus,
                   svcErrMsg, svcErrCode, resp, job, waitRet, result,
                   resultRet>>

\* the multipart body is built in memory from one pass over the caller's
\* data; only reading the caller's data can fail
CopyData ==
    /\ pc = "cs_copy"
    /\ srcReads' = srcReads + 1
    /\ \E ok \in BOOLEAN :
          IF ok
          THEN /\ pc' = "cs_upload" /\ ret' = ret
               /\ buf' = Multipart(payload)
          ELSE /\ ReturnFromCreateAndSubmit(Nil, Wrap("failed to copy data", <<"read error">>))
               /\ buf' = buf
    /\ UNCHANGED <<ctorVars, lockVars, mockVars, payload, sentBody, op, jobType, fileOpened, cancelled, cancelPc,
                   callsAtCancel, waitsAtCancel, calls, waits, svcStatus,
                   svcErrMsg, svcErrCode, resp, job, waitRet, result,
                   resultRet>>

\* variant: the status code of the upload response is not checked
UploadJobDataWith_NoStatusCheck(ctxDone) ==
    /\ pc = "cs_upload"
    /\ \E o \in PlainOutcomes(ctxDone) : \E a \in Applied(o) :
          /\ calls' = Append(calls, Call("UploadJobData", "CreateAndSubmitJob", o, Nil))
          /\ sentBody' = <<buf>>
          /\ svcStatus' = IF a THEN JobStatusLoaded ELSE svcStatus
          /\ IF IsErrOutcome(o)
             THEN ReturnFromCreateAndSubmit(Nil,
                      Wrap("failed to upload data", TransportErr(o)))
             ELSE pc' = "cs_submit" /\ ret' = ret
    /\ UNCHANGED <<ctorVars, lockVars, mockVars, payload, srcReads, buf, op, jobType, fileOpened, cancelled, cancelPc,
                   callsAtCancel, waitsAtCancel, waits, svcErrMsg,
                   svcErrCode, resp, job, waitRet, result, resultRet>>

\* variant: a failed upload is followed by a call that removes the job
UploadJobDataWith_CleansUp(ctxDone) ==
    /\ pc = "cs_upload"
    /\ \E o \in PlainOutcomes(ctxDone) : \E a \in Applied(o) :
          /\ sentBody' = <<buf>>
          /\ IF IsErrOutcome(o)
             THEN /\ calls' = calls
                         \o <<Call("UploadJobData", "CreateAndSubmitJob", o, Nil),
                              Call("DeleteJob", "CreateAndSubmitJob", "ok", Nil)>>
                  /\ svcStatus' = NoJob
                  /\ ReturnFromCreateAndSubmit(Nil,
                         Wrap("failed to upload data", TransportErr(o)))
             ELSE IF o = "badstatus"
             THEN /\ calls' = calls
                         \o <<Call("UploadJobData", "CreateAndSubmitJob", o, Nil),
                              Call("DeleteJob", "CreateAndSubmitJob", "ok", Nil)>>
                  /\ svcStatus' = NoJob
                  /\ ReturnFromCreateAndSubmit(Nil, Errorf("failed to upload data: status"))
             ELSE /\ calls' = Append(calls, Call("UploadJobData", "CreateAndSubmitJob", o, Nil))
                  /\ svcStatus' = IF a THEN JobStatusLoaded ELSE svcStatus
                  /\ pc' = "cs_submit" /\ ret' = ret
    /\ UNCHANGED <<ctorVars, lockVars, mockVars, payload, srcReads, buf, op, jobType, fileOpened, cancelled, cancelPc,
                   callsAtCancel, waitsAtCancel, waits, svcErrMsg,
                   svcErrCode, resp, job, waitRet, result, resultRet>>

\* c.UploadJobDataWithBodyWithResponse(ctx, *job.Id, token, ...)
UploadJobDataWith(ctxDone) ==
    /\ pc = "cs_upload"
    /\ \E o \in PlainOutcomes(ctxDone) : \E a \in Applied(o) :
          /\ calls' = Append(calls, Call("UploadJobData", "CreateAndSubmitJob", o, Nil))
          /\ sentBody' = <<buf>>
          /\ svcStatus' = IF a THEN JobStatusLoaded ELSE svcStatus
          /\ IF IsErrOutcome(o)
             THEN ReturnFromCreateAndSubmit(Nil,
                      Wrap("failed to upload data", TransportErr(o)))
             ELSE IF o = "badstatus"
             THEN ReturnFromCreateAndSubmit(Nil, Errorf("failed to upload data: status"))
             ELSE pc' = "cs_submit" /\ ret' = ret
    /\ UNCHANGED <<ctorVars, lockVars, mockVars, payload, srcReads, buf, op, jobType, fileOpened, cancelled, cancelPc,
                   callsAtCancel, waitsAtCancel, waits, svcErrMsg,
                   svcErrCode, resp, job, waitRet, result, resultRet>>

UploadJobData == UploadJobDataWith(cancelled)

\* variant: the status code of the submit response is not checked
SubmitJobWith_IgnoresStatus(ctxDone) ==
    /\ pc = "cs_submit"
    /\ \E o \in PlainOutcomes(ctxDone) : \E a \in Applied(o) :
          /\ calls' = Append(calls, Call("SubmitJob", "CreateAndSubmitJob", o, Nil))
          /\ svcStatus' = IF a THEN JobStatusPending ELSE svcStatus
          /\ IF IsErrOutcome(o)
             THEN ReturnFromCreateAndSubmit(Nil,
                      Wrap("failed to submit job", TransportErr(o)))
             ELSE ReturnFromCreateAndSubmit(job, NoErr)
    /\ UNCHANGED <<ctorVars, lockVars, mockVars, dataVars, op, jobType, fileOpened, cancelled, cancelPc,
                   callsAtCancel, waitsAtCancel, waits, svcErrMsg, svcErrCode,
                   resp, job, waitRet, result, resultRet>>

\* variant: the job is returned with the status it has after the submit
SubmitJobWith_ReturnsFresh(ctxDone) ==
    /\ pc = "cs_submit"
    /\ \E o \in PlainOutcomes(ctxDone) : \E a \in Applied(o) :
          /\ calls' = Append(calls, Call("SubmitJob", "CreateAndSubmitJob", o, Nil))
          /\ svcStatus' = IF a THEN JobStatusPending ELSE svcStatus
          /\ IF IsErrOutcome(o)
             THEN ReturnFromCreateAndSubmit(Nil,
                      Wrap("failed to submit job", TransportErr(o)))
             ELSE IF o = "badstatus"
             THEN ReturnFromCreateAndSubmit(Nil, Errorf("failed to submit job: status"))
             ELSE ReturnFromCreateAndSubmit(
                      <<[job[1] EXCEPT !.status = JobStatusPending]>>, NoErr)
    /\ UNCHANGED <<ctorVars, lockVars, mockVars, dataVars, op, jobType, fileOpened, cancelled, cancelPc,
                   callsAtCancel, waitsAtCancel, waits, svcErrMsg, svcErrCode,
                   resp, job, waitRet, result, resultRet>>

\* c.SubmitJobWithResponse(ctx, *job.Id)
SubmitJobWith(ctxDone) ==
    /\ pc = "cs_submit"
    /\ \E o \in PlainOutcomes(ctxDone) : \E a \in Applied(o) :
          /\ calls' = Append(calls, Call("SubmitJob", "CreateAndSubmitJob", o, Nil))
          /\ svcStatus' = IF a THEN JobStatusPending ELSE svcStatus
          /\ IF IsErrOutcome(o)
             THEN ReturnFromCreateAndSubmit(Nil,
                      Wrap("failed to submit job", TransportErr(o)))
             ELSE IF o = "badstatus"
             THEN ReturnFromCreateAndSubmit(Nil, Errorf("failed to submit job: status"))
             ELSE ReturnFromCreateAndSubmit(job, NoErr)
    /\ UNCHANGED <<ctorVars, lockVars, mockVars, dataVars, op, jobType, fileOpened, cancelled, cancelPc,
                   callsAtCancel, waitsAtCancel, waits, svcErrMsg,
                   svcErrCode, resp, job, waitRet, result, resultRet>>

SubmitJob == SubmitJobWith(cancelled)

----------------------------------------------------------------------------
\* WaitForJob

\* status fetches issued by WaitForJob so far
WaitFetches == SelectSeq(calls, LAMBDA c : c.by = "WaitForJob")

\* variant: the loop sleeps before it fetches
WaitSelectDefault_SleepFirst ==
    /\ pc = "wf_select1"
    /\ IF cancelled
       THEN ReturnFromWaitForJob(Nil, CtxErr) /\ waits' = waits
       ELSE pc' = "wf_fetch" /\ ret' = ret /\ waitRet' = waitRet /\ waits' = waits + 1
    /\ UNCHANGED <<ctorVars, lockVars, mockVars, dataVars, op, jobType, fileOpened, cancelled, cancelPc,
                   callsAtCancel, waitsAtCancel, calls, svcStatus, svcErrMsg,
                   svcErrCode, resp, job, result, resultRet>>

\* variant: the loop head does not look at the context
WaitSelectDefault_NoCheck ==
    /\ pc = "wf_select1"
    /\ pc' = "wf_fetch"
    /\ UNCHANGED <<ctorVars, lockVars, mockVars, dataVars, op, jobType, fileOpened, cancelled, cancelPc,
                   callsAtCancel, waitsAtCancel, calls, waits, svcStatus,
                   svcErrMsg, svcErrCode, resp, job, waitRet, result,
                   resultRet, ret>>

\* loop head: select { case <-ctx.Done(): return nil, ctx.Err(); default: }
WaitSelectDefault ==
    /\ pc = "wf_select1"
    /\ IF cancelled
       THEN ReturnFromWaitForJob(Nil, CtxErr)
       ELSE pc' = "wf_fetch" /\ ret' = ret /\ waitRet' = waitRet
    /\ UNCHANGED <<ctorVars, lockVars, mockVars, dataVars, op, jobType, fileOpened, cancelled, cancelPc,
                   callsAtCancel, waitsAtCancel, calls, waits, svcStatus,
                   svcErrMsg, svcErrCode, resp, job, result, resultRet>>

\* variant: after the first answer the loop keeps looking at that answer
WaitFetchWith_Stale(ctxDone) ==
    /\ pc = "wf_fetch"
    /\ \E o \in JSONOutcomes(ctxDone) :
       \E st \in IF o = "ok" THEN {svcStatus, Absent} ELSE {Absent} :
          LET fresh == IF o = "ok" THEN <<Snapshot(st, svcErrMsg, Absent)>> ELSE Nil
              snap == IF o = "ok" /\ resp.outcome = "ok" THEN resp.snap ELSE fresh
          IN /\ o = "ok" => svcStatus # NoJob
             /\ resp' = [outcome |-> o, snap |-> snap]
             /\ calls' = Append(calls, Call("GetJob", "WaitForJob", o, snap))
    /\ pc' = "wf_check"
    /\ UNCHANGED <<ctorVars, lockVars, mockVars, dataVars, op, jobType, fileOpened, cancelled, cancelPc,
                   callsAtCancel, waitsAtCancel, waits, svcStatus, svcErrMsg,
                   svcErrCode, job, waitRet, result, resultRet, ret>>

\* resp, err := c.GetJobWithResponse(ctx, jobID)
WaitFetchWith(ctxDone) ==
    /\ pc = "wf_fetch"
    /\ \E o \in JSONOutcomes(ctxDone) :
       \E st \in IF o = "ok" THEN {svcStatus, Absent} ELSE {Absent} :
          LET snap == IF o = "ok" THEN <<Snapshot(st, svcErrMsg, Absent)>> ELSE Nil
          IN /\ o = "ok" => svcStatus # NoJob
             /\ resp' = [outcome |-> o, snap |-> snap]
             /\ calls' = Append(calls, Call("GetJob", "WaitForJob", o, snap))
    /\ pc' = "wf_check"
    /\ UNCHANGED <<ctorVars, lockVars, mockVars, dataVars, op, jobType, fileOpened, cancelled, cancelPc,
                   callsAtCancel, waitsAtCancel, waits, svcStatus, svcErrMsg,
                   svcErrCode, job, waitRet, result, resultRet, ret>>

WaitFetch == WaitFetchWith(cancelled)

\* variant: a snapshot without a status counts as terminal
WaitCheck_AbsentIsTerminal ==
    /\ pc = "wf_check"
    /\ IF IsErrOutcome(resp.outcome)
       THEN ReturnFromWaitForJob(Nil,
                Wrap("failed to get job status", TransportErr(resp.outcome)))
       ELSE IF resp.outcome = "badstatus"
       THEN ReturnFromWaitForJob(Nil, Errorf("failed to get job status: status"))
       ELSE IF resp.snap = Nil
       THEN ReturnFromWaitForJob(Nil, Errorf("unexpected response format"))
       ELSE IF resp.snap[1].status = Absent \/ IsTerminal(resp.snap[1].status)
       THEN ReturnFromWaitForJob(resp.snap, NoErr)
       ELSE pc' = "wf_select2" /\ ret' = ret /\ waitRet' = waitRet
    /\ UNCHANGED <<ctorVars, lockVars, mockVars, dataVars, op, jobType, fileOpened, cancelled, cancelPc,
                   callsAtCancel, waitsAtCancel, calls, waits, svcStatus,
                   svcErrMsg, svcErrCode, resp, job, result, resultRet>>

\* variant: a Failed job makes the wait itself fail
WaitCheck_FailedIsError ==
    /\ pc = "wf_check"
    /\ IF IsErrOutcome(resp.outcome)
       THEN ReturnFromWaitForJob(Nil,
                Wrap("failed to get job status", TransportErr(resp.outcome)))
       ELSE IF resp.outcome = "badstatus"
       THEN ReturnFromWaitForJob(Nil, Errorf("failed to get job status: status"))
       ELSE IF resp.snap = Nil
       THEN ReturnFromWaitForJob(Nil, Errorf("unexpected response format"))
       ELSE IF resp.snap[1].status = JobStatusFailed
       THEN ReturnFromWaitForJob(Nil, Errorf("job failed"))
       ELSE IF IsTerminal(resp.snap[1].status)
       THEN ReturnFromWaitForJob(resp.snap, NoErr)
       ELSE pc' = "wf_select2" /\ ret' = ret /\ waitRet' = waitRet
    /\ UNCHANGED <<ctorVars, lockVars, mockVars, dataVars, op, jobType, fileOpened, cancelled, cancelPc,
                   callsAtCancel, waitsAtCancel, calls, waits, svcStatus,
                   svcErrMsg, svcErrCode, resp, job, result, resultRet>>

\* variant: the context is consulted before the fetched status
WaitCheck_CtxFirst ==
    /\ pc = "wf_check"
    /\ IF cancelled
       THEN ReturnFromWaitForJob(Nil, CtxErr)
       ELSE IF IsErrOutcome(resp.outcome)
       THEN ReturnFromWaitForJob(Nil,
                Wrap("failed to get job status", TransportErr(resp.outcome)))
       ELSE IF resp.outcome = "badstatus"
       THEN ReturnFromWaitForJob(Nil, Errorf("failed to get job status: status"))
       ELSE IF resp.snap = Nil
       THEN ReturnFromWaitForJob(Nil, Errorf("unexpected response format"))
       ELSE IF IsTerminal(resp.snap[1].status)
       THEN ReturnFromWaitForJob(resp.snap, NoErr)
       ELSE pc' = "wf_select2" /\ ret' = ret /\ waitRet' = waitRet
    /\ UNCHANGED <<ctorVars, lockVars, mockVars, dataVars, op, jobType, fileOpened, cancelled, cancelPc,
                   callsAtCancel, waitsAtCancel, calls, waits, svcStatus,
                   svcErrMsg, svcErrCode, resp, job, result, resultRet>>

\* variant: an error status of the fetch is retried after the interval
WaitCheck_RetryOnBadStatus ==
    /\ pc = "wf_check"
    /\ IF IsErrOutcome(resp.outcome)
       THEN ReturnFromWaitForJob(Nil,
                Wrap("failed to get job status", TransportErr(resp.outcome)))
       ELSE IF resp.outcome = "badstatus"
       THEN pc' = "wf_select2" /\ ret' = ret /\ waitRet' = waitRet
       ELSE IF resp.snap = Nil
       THEN ReturnFromWaitForJob(Nil, Errorf("unexpected response format"))
       ELSE IF IsTerminal(resp.snap[1].status)
       THEN ReturnFromWaitForJob(resp.snap, NoErr)
       ELSE pc' = "wf_select2" /\ ret' = ret /\ waitRet' = waitRet
    /\ UNCHANGED <<ctorVars, lockVars, mockVars, dataVars, op, jobType, fileOpened, cancelled, cancelPc,
                   callsAtCancel, waitsAtCancel, calls, waits, svcStatus,
                   svcErrMsg, svcErrCode, resp, job, result, resultRet>>

\* the checks of the fetched response, ending with the terminal predicate
WaitCheck ==
    /\ pc = "wf_check"
    /\ IF IsErrOutcome(resp.outcome)
       THEN ReturnFromWaitForJob(Nil,
                Wrap("failed to get job status", TransportErr(resp.outcome)))
       ELSE IF resp.outcome = "badstatus"
       THEN ReturnFromWaitForJob(Nil, Errorf("failed to get job status: status"))
       ELSE IF resp.snap = Nil
       THEN ReturnFromWaitForJob(Nil, Errorf("unexpected response format"))
       ELSE IF IsTerminal(resp.snap[1].status)
       THEN ReturnFromWaitForJob(resp.snap, NoErr)
       ELSE pc' = "wf_select2" /\ ret' = ret /\ waitRet' = waitRet
    /\ UNCHANGED <<ctorVars, lockVars, mockVars, dataVars, op, jobType, fileOpened, cancelled, cancelPc,
                   callsAtCancel, waitsAtCancel, calls, waits, svcStatus,
                   svcErrMsg, svcErrCode, resp, job, result, resultRet>>

\* variant: cancellation during the wait hands back the last snapshot
WaitSelectDone_ReturnsJob ==
    /\ pc = "wf_select2"
    /\ cancelled
    /\ ReturnFromWaitForJob(resp.snap, CtxErr)
    /\ UNCHANGED <<ctorVars, lockVars, mockVars, dataVars, op, jobType, fileOpened, cancelled, cancelPc,
                   callsAtCancel, waitsAtCancel, calls, waits, svcStatus,
                   svcErrMsg, svcErrCode, resp, job, result, resultRet>>

\* select { case <-ctx.Done(): return nil, ctx.Err() ... }
WaitSelectDone ==
    /\ pc = "wf_select2"
    /\ cancelled
    /\ ReturnFromWaitForJob(Nil, CtxErr)
    /\ UNCHANGED <<ctorVars, lockVars, mockVars, dataVars, op, jobType, fileOpened, cancelled, cancelPc,
                   callsAtCancel, waitsAtCancel, calls, waits, svcStatus,
                   svcErrMsg, svcErrCode, resp, job, result, resultRet>>

\* variant: the interval is slept through whatever the context says
WaitSelectTimer_IgnoresCtx ==
    /\ pc = "wf_select2"
    /\ Len(WaitFetches) < MaxFetches
    /\ waits' = waits + 1
    /\ pc' = "wf_select1"
    /\ UNCHANGED <<ctorVars, lockVars, mockVars, dataVars, op, jobType, fileOpened, cancelled, cancelPc,
                   callsAtCancel, waitsAtCancel, calls, svcStatus, svcErrMsg,
                   svcErrCode, resp, job, waitRet, result, resultRet, ret>>

\* select { ... case <-time.After(2 * time.Second): }  The timer is created
\* when the select is entered, so it wins only if it fires before the
\* context is done.
WaitSelectTimer ==
    /\ pc = "wf_select2"
    /\ ~cancelled
    /\ Len(WaitFetches) < MaxFetches
    /\ waits' = waits + 1
    /\ pc' = "wf_select1"
    /\ UNCHANGED <<ctorVars, lockVars, mockVars, dataVars, op, jobType, fileOpened, cancelled, cancelPc,
                   callsAtCancel, waitsAtCancel, calls, svcStatus, svcErrMsg,
                   svcErrCode, resp, job, waitRet, result, resultRet, ret>>

----------------------------------------------------------------------------
\* GetJobResult

\* status fetches and output/logs fetches issued by GetJobResult so far
ResultFetches == SelectSeq(calls, LAMBDA c : c.by = "GetJobResult")

\* variant: the output is fetched whatever the status of the job
ResultGetJobWith_AlwaysOutput(ctxDone) ==
    /\ pc = "gr_getjob"
    /\ \E o \in JSONOutcomes(ctxDone) :
       \E st \in IF o = "ok" THEN {svcStatus, Absent} ELSE {Absent} :
          LET snap == IF o = "ok" THEN <<Snapshot(st, svcErrMsg, Absent)>> ELSE Nil
          IN /\ o = "ok" => svcStatus # NoJob
             /\ calls' = Append(calls, Call("GetJob", "GetJobResult", o, snap))
             /\ IF IsErrOutcome(o)
                THEN /\ result' = result
                     /\ ReturnFromGetJobResult(Nil,
                            Wrap("failed to get job", TransportErr(o)))
                ELSE IF o = "badstatus"
                THEN /\ result' = result
                     /\ ReturnFromGetJobResult(Nil, Errorf("failed to get job: status"))
                ELSE IF snap = Nil
                THEN /\ result' = result
                     /\ ReturnFromGetJobResult(Nil, Errorf("unexpected response format"))
                ELSE /\ result' = <<[job |-> snap[1], output |-> "", logs |-> ""]>>
                     /\ pc' = "gr_output"
                     /\ ret' = ret
                     /\ resultRet' = resultRet
    /\ UNCHANGED <<ctorVars, lockVars, mockVars, dataVars, op, jobType, fileOpened, cancelled, cancelPc,
                   callsAtCancel, waitsAtCancel, waits, svcStatus, svcErrMsg,
                   svcErrCode, resp, job, waitRet>>

\* variant: a response without job payload is not rejected
ResultGetJobWith_IgnoresMissingData(ctxDone) ==
    /\ pc = "gr_getjob"
    /\ \E o \in JSONOutcomes(ctxDone) :
       \E st \in IF o = "ok" THEN {svcStatus, Absent} ELSE {Absent} :
          LET snap == IF o = "ok" THEN <<Snapshot(st, svcErrMsg, Absent)>> ELSE Nil
              empty == Snapshot(Absent, Absent, Absent)
          IN /\ o = "ok" => svcStatus # NoJob
             /\ calls' = Append(calls, Call("GetJob", "GetJobResult", o, snap))
             /\ IF IsErrOutcome(o)
                THEN /\ result' = result
                     /\ ReturnFromGetJobResult(Nil,
                            Wrap("failed to get job", TransportErr(o)))
                ELSE IF o = "badstatus"
                THEN /\ result' = result
                     /\ ReturnFromGetJobResult(Nil, Errorf("failed to get job: status"))
                ELSE /\ result' = <<[job |-> IF snap = Nil THEN empty ELSE snap[1],
                                     output |-> "", logs |-> ""]>>
                     /\ pc' = IF snap # Nil /\ snap[1].status = JobStatusFinished
                              THEN "gr_output" ELSE "gr_logs"
                     /\ ret' = ret
                     /\ resultRet' = resultRet
    /\ UNCHANGED <<ctorVars, lockVars, mockVars, dataVars, op, jobType, fileOpened, cancelled, cancelPc,
                   callsAtCancel, waitsAtCancel, waits, svcStatus, svcErrMsg,
                   svcErrCode, resp, job, waitRet>>

\* jobResp, err := c.GetJobWithResponse(ctx, jobID), its checks, and
\* result := &JobResult{Job: job}
ResultGetJobWith(ctxDone) ==
    /\ pc = "gr_getjob"
    /\ \E o \in JSONOutcomes(ctxDone) :
       \E st \in IF o = "ok" THEN {svcStatus, Absent} ELSE {Absent} :
          LET snap == IF o = "ok" THEN <<Snapshot(st, svcErrMsg, Absent)>> ELSE Nil
          IN /\ o = "ok" => svcStatus # NoJob
             /\ calls' = Append(calls, Call("GetJob", "GetJobResult", o, snap))
             /\ IF IsErrOutcome(o)
                THEN /\ result' = result
                     /\ ReturnFromGetJobResult(Nil,
                            Wrap("failed to get job", TransportErr(o)))
                ELSE IF o = "badstatus"
                THEN /\ result' = result
                     /\ ReturnFromGetJobResult(Nil, Errorf("failed to get job: status"))
                ELSE IF snap = Nil
                THEN /\ result' = result
                     /\ ReturnFromGetJobResult(Nil, Errorf("unexpected response format"))
                ELSE /\ result' = <<[job |-> snap[1], output |-> "", logs |-> ""]>>
                     /\ pc' = IF snap[1].status # Absent /\ snap[1].status = JobStatusFinished
                              THEN "gr_output" ELSE "gr_logs"
                     /\ ret' = ret
                     /\ resultRet' = resultRet
    /\ UNCHANGED <<ctorVars, lockVars, mockVars, dataVars, op, jobType, fileOpened, cancelled, cancelPc,
                   callsAtCancel, waitsAtCancel, waits, svcStatus, svcErrMsg,
                   svcErrCode, resp, job, waitRet>>

ResultGetJob == ResultGetJobWith(cancelled)

\* outputResp, err := c.GetJobOutput(ctx, jobID) and io.ReadAll of its body
ResultGetOutputWith(ctxDone) ==
    /\ pc = "gr_output"
    /\ \E o \in BodyOutcomes(ctxDone) :
          /\ calls' = Append(calls, Call("GetJobOutput", "GetJobResult", o, Nil))
          /\ IF IsErrOutcome(o)
             THEN /\ result' = result
                  /\ ReturnFromGetJobResult(Nil,
                         Wrap("failed to get job output", TransportErr(o)))
             ELSE IF o = "readerr"
             THEN /\ result' = result
                  /\ ReturnFromGetJobResult(Nil,
                         Wrap("failed to read output", <<"read error">>))
             ELSE /\ result' = IF o = "ok"
                               THEN <<[result[1] EXCEPT !.output = "output-bytes"]>>
                               ELSE result
                  /\ pc' = "gr_logs"
                  /\ ret' = ret
                  /\ resultRet' = resultRet
    /\ UNCHANGED <<ctorVars, lockVars, mockVars, dataVars, op, jobType, fileOpened, cancelled, cancelPc,
                   callsAtCancel, waitsAtCancel, waits, svcStatus, svcErrMsg,
                   svcErrCode, resp, job, waitRet>>

\* variant: the output is fetched with a context of its own
ResultGetOutput_Background == ResultGetOutputWith(FALSE)

ResultGetOutput == ResultGetOutputWith(cancelled)

\* variant: a logs fetch that breaks makes the call return nothing at all
ResultGetLogsWith_NilOnError(ctxDone) ==
    /\ pc = "gr_logs"
    /\ \E o \in BodyOutcomes(ctxDone) :
          /\ calls' = Append(calls, Call("GetJobLogs", "GetJobResult", o, Nil))
          /\ result' = IF o = "ok"
                       THEN <<[result[1] EXCEPT !.logs = "log-text"]>>
                       ELSE result
          /\ IF IsErrOutcome(o)
             THEN ReturnFromGetJobResult(Nil, NoErr)
             ELSE ReturnFromGetJobResult(result', NoErr)
    /\ UNCHANGED <<ctorVars, lockVars, mockVars, dataVars, op, jobType, fileOpened, cancelled, cancelPc,
                   callsAtCancel, waitsAtCancel, waits, svcStatus, svcErrMsg,
                   svcErrCode, resp, job, waitRet>>

\* variant: a logs response with an error status fails the call
ResultGetLogsWith_FailsOnStatus(ctxDone) ==
    /\ pc = "gr_logs"
    /\ \E o \in BodyOutcomes(ctxDone) :
          /\ calls' = Append(calls, Call("GetJobLogs", "GetJobResult", o, Nil))
          /\ result' = IF o = "ok"
                       THEN <<[result[1] EXCEPT !.logs = "log-text"]>>
                       ELSE result
          /\ IF o = "badstatus"
             THEN ReturnFromGetJobResult(Nil, Errorf("failed to get job logs: status"))
             ELSE ReturnFromGetJobResult(result', NoErr)
    /\ UNCHANGED <<ctorVars, lockVars, mockVars, dataVars, op, jobType, fileOpened, cancelled, cancelPc,
                   callsAtCancel, waitsAtCancel, waits, svcStatus, svcErrMsg,
                   svcErrCode, resp, job, waitRet>>

\* logsResp, err := c.GetJobLogs(ctx, jobID) and io.ReadAll of its body
ResultGetLogsWith(ctxDone) ==
    /\ pc = "gr_logs"
    /\ \E o \in BodyOutcomes(ctxDone) :
          /\ calls' = Append(calls, Call("GetJobLogs", "GetJobResult", o, Nil))
          /\ result' = IF o = "ok"
                       THEN <<[result[1] EXCEPT !.logs = "log-text"]>>
                       ELSE result
          /\ ReturnFromGetJobResult(result', NoErr)
    /\ UNCHANGED <<ctorVars, lockVars, mockVars, dataVars, op, jobType, fileOpened, cancelled, cancelPc,
                   callsAtCancel, waitsAtCancel, waits, svcStatus, svcErrMsg,
                   svcErrCode, resp, job, waitRet>>

ResultGetLogs == ResultGetLogsWith(cancelled)

----------------------------------------------------------------------------
Next ==
    \/ Cancel
    \/ ServiceProgress
    \/ OpenFile
    \/ CreateJob
    \/ CopyData
    \/ UploadJobData
    \/ SubmitJob
    \/ WaitSelectDefault
    \/ WaitFetch
    \/ WaitCheck
    \/ WaitSelectDone
    \/ WaitSelectTimer
    \/ ResultGetJob
    \/ ResultGetOutput
    \/ ResultGetLogs

Spec == Init /\ [][Next]_vars

\* The goroutine running WaitForJob is scheduled, its round trips come back
\* and its timer fires: each step of the polling loop that stays enabled is
\* eventually taken.
WaitFairness ==
    /\ WF_vars(WaitSelectDefault)
    /\ WF_vars(WaitFetch)
    /\ WF_vars(WaitCheck)
    /\ WF_vars(WaitSelectDone)
    /\ WF_vars(WaitSelectTimer)

LiveSpec == Init /\ [][Next]_vars /\ WaitFairness

----------------------------------------------------------------------------
\* CreateAndSubmitJob and CreateAndSubmitJobFromFile on every payload of up
\* to MaxLen bytes

DataInit ==
    /\ op \in {"CreateAndSubmitJob", "CreateAndSubmitJobFromFile"}
    /\ jobType \in JobTypes
    /\ fileOpened = "unopened"
    /\ pc = IF op \in FromFileCalls THEN "open" ELSE "cs_create"
    /\ cancelled \in BOOLEAN
    /\ cancelPc = IF cancelled THEN "entry" ELSE "none"
    /\ callsAtCancel = 0
    /\ waitsAtCancel = 0
    /\ calls = <<>>
    /\ waits = 0
    /\ svcStatus = NoJob
    /\ svcErrMsg = Absent
    /\ svcErrCode = Absent
    /\ resp = [outcome |-> "none", snap |-> Nil]
    /\ job = Nil
    /\ waitRet = Nil
    /\ result = Nil
    /\ resultRet = Nil
    /\ ret = Nil
    /\ payload \in Payloads
    /\ srcReads = 0
    /\ buf = <<>>
    /\ sentBody = Nil
    /\ MockUnused
    /\ CtorUnused
    /\ LockUnused

DataNext ==
    \/ Cancel
    \/ OpenFile
    \/ CreateJob
    \/ CopyData
    \/ UploadJobData
    \/ SubmitJob

DataSpec == DataInit /\ [][DataNext]_vars

----------------------------------------------------------------------------
\* Process invocations running concurrently on one client against one
\* MockServer (testserver_test.go).  A round trip is one step: the request
\* the client builds, the handler of the mock serving it, and what the client
\* does with the response.  The handlers are atomic: each touches the job
\* table under the lock of the server, and no two invocations share a job.

NumInv == 2
Invs == 1..NumInv

MockPayloads == {<<>>, FiveLines}

clientVars ==
    <<op, jobType, fileOpened, pc, cancelled, cancelPc, callsAtCancel,
      waitsAtCancel, calls, waits, svcStatus, svcErrMsg, svcErrCode, resp,
      job, waitRet, result, resultRet, ret>>

\* the zero uuid.UUID, which no job has
NoId == "00000000"

\* uuid.New(): the n-th value after those handed out so far
NewUUID(n) == ToString(uuidCount + n)

\* uuid.Parse of a path segment
ParseUUID(segment) ==
    IF segment \in {"", "v1", "jobs", "upload", "submit", "output", "logs"}
    THEN NoId ELSE segment

\* strconv.Itoa
Digits == <<"0", "1", "2", "3", "4", "5", "6", "7", "8", "9">>
RECURSIVE Itoa(_)
Itoa(n) ==
    IF n < 10 THEN <<Digits[n + 1]>>
    ELSE Itoa(n \div 10) \o <<Digits[(n % 10) + 1]>>

\* bytes.Count(data, []byte("\n"))
NewlineCount(data) ==
    Cardinality({k \in 1..Len(data) : data[k] \in {"nl", "crlf"}})

\* the output of a test/linecount job over data
LineCountOutput(data) ==
    IF Len(data) = 0 THEN <<"0">>
    ELSE IF data[Len(data)] \notin {"nl", "crlf"}
    THEN Itoa(NewlineCount(data) + 1)
    ELSE Itoa(NewlineCount(data))

\* the paths of the service, split at "/"
JobsPath == <<"", "v1", "jobs">>
UploadPath(id) == <<"", "v1", "upload", id>>
JobPath(id) == <<"", "v1", "jobs", id>>
JobSubPath(id, what) == <<"", "v1", "jobs", id, what>>

Request(method, path, token, body) ==
    [method |-> method, path |-> path, token |-> token, body |-> body]

\* a response that leaves the server as it is
Reply(code, data) ==
    [code |-> code, data |-> data, jobs |-> jobs,
     uploadedData |-> uploadedData, uuidCount |-> uuidCount]

\* the segment after the first "jobs" segment, parsed as a job id
JobIdAfterJobs(parts) ==
    LET at == {k \in 1..Len(parts) : parts[k] = "jobs"}
    IN IF at = {} THEN NoId
       ELSE LET k == CHOOSE x \in at : \A y \in at : x <= y
            IN IF k + 1 <= Len(parts) THEN ParseUUID(parts[k + 1]) ELSE NoId

handleCreateJob(r) ==
    LET jobID == NewUUID(1)
        made == [id |-> jobID, type |-> r.body.type, status |-> JobStatusCreated,
                 uploadToken |-> NewUUID(2), dataSize |-> 0]
    IN [code |-> 201, data |-> made, jobs |-> (jobID :> made) @@ jobs,
        uploadedData |-> uploadedData, uuidCount |-> uuidCount + 2]

\* variant: the upload goes to the first job that has an upload token,
\* whatever the path and the token of the request say
handleUpload_FirstJob(r) ==
    IF Len(r.path) < 4 THEN Reply(400, "Invalid upload path")
    ELSE LET with == {id \in DOMAIN jobs : jobs[id].uploadToken # Absent}
         IN IF with = {} THEN Reply(200, "Upload successful")
            ELSE LET first == CHOOSE id \in with : TRUE
                 IN [code |-> 200, data |-> "Upload successful",
                     jobs |-> [jobs EXCEPT ![first].status = JobStatusLoaded,
                                           ![first].dataSize = ByteLen(r.body)],
                     uploadedData |-> (first :> r.body) @@ uploadedData,
                     uuidCount |-> uuidCount]

\* variant: the token of the request is not compared with the job's
handleUpload_NoTokenCheck(r) ==
    IF Len(r.path) < 4 THEN Reply(400, "Invalid upload path")
    ELSE LET jobID == ParseUUID(r.path[4])
         IN IF jobID = NoId THEN Reply(400, "Invalid job ID")
            ELSE IF r.token = "" THEN Reply(400, "Missing upload token")
            ELSE IF jobID \notin DOMAIN jobs THEN Reply(404, "Job not found")
            ELSE [code |-> 200, data |-> "Upload successful",
                  jobs |-> [jobs EXCEPT ![jobID].status = JobStatusLoaded,
                                        ![jobID].dataSize = ByteLen(r.body)],
                  uploadedData |-> (jobID :> r.body) @@ uploadedData,
                  uuidCount |-> uuidCount]

handleUpload(r) ==
    IF Len(r.path) < 4 THEN Reply(400, "Invalid upload path")
    ELSE LET jobID == ParseUUID(r.path[4])
         IN IF jobID = NoId THEN Reply(400, "Invalid job ID")
            ELSE IF r.token = "" THEN Reply(400, "Missing upload token")
            ELSE IF jobID \notin DOMAIN jobs THEN Reply(404, "Job not found")
            ELSE IF jobs[jobID].uploadToken = Absent
                    \/ jobs[jobID].uploadToken # r.token
            THEN Reply(401, "Invalid upload token")
            ELSE [code |-> 200, data |-> "Upload successful",
                  jobs |-> [jobs EXCEPT ![jobID].status = JobStatusLoaded,
                                        ![jobID].dataSize = ByteLen(r.body)],
                  uploadedData |-> (jobID :> r.body) @@ uploadedData,
                  uuidCount |-> uuidCount]

handleSubmit(r) ==
    LET jobID == JobIdAfterJobs(r.path)
    IN IF jobID \notin DOMAIN jobs THEN Reply(404, "Job not found")
       ELSE [code |-> 200, data |-> "Job submitted successfully",
             jobs |-> [jobs EXCEPT ![jobID].status =
                          IF jobs[jobID].type = "test/linecount"
                          THEN JobStatusFinished ELSE JobStatusPending],
             uploadedData |-> uploadedData, uuidCount |-> uuidCount]

\* variant: fetching a pending job completes it
handleGetJob_Advances(r) ==
    LET jobID == JobIdAfterJobs(r.path)
    IN IF jobID \notin DOMAIN jobs THEN Reply(404, "Job not found")
       ELSE IF jobs[jobID].status = JobStatusPending
       THEN [code |-> 200, data |-> [jobs[jobID] EXCEPT !.status = JobStatusFinished],
             jobs |-> [jobs EXCEPT ![jobID].status = JobStatusFinished],
             uploadedData |-> uploadedData, uuidCount |-> uuidCount]
       ELSE Reply(200, jobs[jobID])

handleGetJob(r) ==
    LET jobID == JobIdAfterJobs(r.path)
    IN IF jobID \notin DOMAIN jobs THEN Reply(404, "Job not found")
       ELSE Reply(200, jobs[jobID])

handleGetOutput(r) ==
    LET jobID == JobIdAfterJobs(r.path)
        data == IF jobID \in DOMAIN uploadedData THEN uploadedData[jobID] ELSE <<>>
    IN IF jobID \notin DOMAIN jobs \/ jobs[jobID].status # JobStatusFinished
       THEN Reply(404, "Output not available")
       ELSE IF jobs[jobID].type = "test/linecount"
       THEN Reply(200, LineCountOutput(data))
       ELSE Reply(200, <<"mock output">>)

handleGetLogs(r) ==
    LET jobID == JobIdAfterJobs(r.path)
    IN IF jobID \notin DOMAIN jobs THEN Reply(404, "Logs not available")
       ELSE Reply(200, <<"Processing", jobs[jobID].type, "job", "nl",
                         "Completed successfully">>)

\* MockServer.handler: the switch over method and path
handler(r) ==
    LET has(what) == \E k \in 1..Len(r.path) : r.path[k] = what
        underJobs == \E k \in 1..(Len(r.path) - 2) :
                        r.path[k] = "v1" /\ r.path[k + 1] = "jobs"
    IN IF r.method = "POST" /\ r.path = JobsPath THEN handleCreateJob(r)
       ELSE IF r.method = "POST" /\ Len(r.path) >= 4
               /\ SubSeq(r.path, 1, 3) = <<"", "v1", "upload">>
       THEN handleUpload(r)
       ELSE IF r.method = "POST" /\ has("submit") THEN handleSubmit(r)
       ELSE IF r.method = "GET" /\ underJobs /\ has("output") THEN handleGetOutput(r)
       ELSE IF r.method = "GET" /\ underJobs /\ has("logs") THEN handleGetLogs(r)
       ELSE IF r.method = "GET" /\ underJobs THEN handleGetJob(r)
       ELSE Reply(404, "Not found")

\* the server state after a response
Served(rep) ==
    /\ jobs' = rep.jobs
    /\ uploadedData' = rep.uploadedData
    /\ uuidCount' = rep.uuidCount

\* an invocation that issued request r, got rep and goes on at position next
Goes(s, r, rep, next) ==
    [s EXCEPT !.pc = next,
              !.reqs = Append(@, [req |-> r, code |-> rep.code, data |-> rep.data])]

\* an invocation that issued request r, got rep and returns (res, err)
Ends(s, r, rep, res, err) ==
    [s EXCEPT !.pc = "done",
              !.reqs = Append(@, [req |-> r, code |-> rep.code, data |-> rep.data]),
              !.ret = <<[val |-> res, err |-> err]>>]

InvStart(type, data) ==
    [pc |-> "create", jobType |-> type, payload |-> data, job |-> Nil,
     polls |-> 0, finishedJob |-> Nil, result |-> Nil, reqs |-> <<>>,
     ret |-> Nil]

MockInit ==
    /\ op = "Process"
    /\ jobType = "test/linecount"
    /\ fileOpened = "unopened"
    /\ pc = "unused"
    /\ cancelled = FALSE
    /\ cancelPc = "none"
    /\ callsAtCancel = 0
    /\ waitsAtCancel = 0
    /\ calls = <<>>
    /\ waits = 0
    /\ svcStatus = NoJob
    /\ svcErrMsg = Absent
    /\ svcErrCode = Absent
    /\ resp = [outcome |-> "none", snap |-> Nil]
    /\ job = Nil
    /\ waitRet = Nil
    /\ result = Nil
    /\ resultRet = Nil
    /\ ret = Nil
    /\ payload = <<>>
    /\ srcReads = 0
    /\ buf = <<>>
    /\ sentBody = Nil
    /\ jobs = <<>>
    /\ uploadedData = <<>>
    /\ uuidCount = 0
    /\ inv \in [Invs -> {InvStart(t, d) : t \in JobTypes, d \in MockPayloads}]
    /\ CtorUnused
    /\ LockUnused

\* CreateAndSubmitJob lines 75-93 against handleCreateJob
MockCreateJob(i) ==
    /\ inv[i].pc = "create"
    /\ LET r == Request("POST", JobsPath, "", [type |-> inv[i].jobType])
           rep == handler(r)
       IN /\ Served(rep)
          /\ inv' = [inv EXCEPT ![i] =
                IF rep.code # 201
                THEN Ends(@, r, rep, Nil, Errorf("failed to create job: status"))
                ELSE IF rep.data.uploadToken = Absent
                THEN Ends(@, r, rep, Nil, Errorf("no upload token in response"))
                ELSE [Goes(@, r, rep, "upload") EXCEPT !.job = <<rep.data>>]]
    /\ UNCHANGED <<ctorVars, lockVars, clientVars, dataVars>>

\* variant: the upload names the job the client created first
MockUploadJobData_FirstJob(i) ==
    /\ inv[i].pc = "upload"
    /\ LET first == CHOOSE id \in DOMAIN jobs : TRUE
           r == Request("POST", UploadPath(first),
                        inv[i].job[1].uploadToken, Multipart(inv[i].payload))
           rep == handler(r)
       IN /\ Served(rep)
          /\ inv' = [inv EXCEPT ![i] =
                IF rep.code # 200
                THEN Ends(@, r, rep, Nil, Errorf("failed to upload data: status"))
                ELSE Goes(@, r, rep, "submit")]
    /\ UNCHANGED <<ctorVars, lockVars, clientVars, dataVars>>

\* CreateAndSubmitJob lines 95-121 against handleUpload
MockUploadJobData(i) ==
    /\ inv[i].pc = "upload"
    /\ LET r == Request("POST", UploadPath(inv[i].job[1].id),
                        inv[i].job[1].uploadToken, Multipart(inv[i].payload))
           rep == handler(r)
       IN /\ Served(rep)
          /\ inv' = [inv EXCEPT ![i] =
                IF rep.code # 200
                THEN Ends(@, r, rep, Nil, Errorf("failed to upload data: status"))
                ELSE Goes(@, r, rep, "submit")]
    /\ UNCHANGED <<ctorVars, lockVars, clientVars, dataVars>>

\* CreateAndSubmitJob lines 123-133 against handleSubmit, and Process 274-277
MockSubmitJob(i) ==
    /\ inv[i].pc = "submit"
    /\ LET r == Request("POST", JobSubPath(inv[i].job[1].id, "submit"), "", <<>>)
           rep == handler(r)
       IN /\ Served(rep)
          /\ inv' = [inv EXCEPT ![i] =
                IF rep.code # 200
                THEN Ends(@, r, rep, Nil, Errorf("failed to submit job: status"))
                ELSE Goes(@, r, rep, "wait")]
    /\ UNCHANGED <<ctorVars, lockVars, clientVars, dataVars>>

\* one iteration of WaitForJob (lines 149-183) against handleGetJob, and
\* Process 280-283
MockWaitFetch(i) ==
    /\ inv[i].pc = "wait"
    /\ inv[i].polls < MaxFetches
    /\ LET r == Request("GET", JobPath(inv[i].job[1].id), "", <<>>)
           rep == handler(r)
       IN /\ Served(rep)
          /\ inv' = [inv EXCEPT ![i] =
                IF rep.code # 200
                THEN Ends(@, r, rep, Nil,
                          Wrap("failed waiting for job",
                               Errorf("failed to get job status: status")))
                ELSE IF IsTerminal(rep.data.status)
                THEN [Goes(@, r, rep, "getjob") EXCEPT
                         !.finishedJob = <<rep.data>>, !.polls = @ + 1]
                ELSE [Goes(@, r, rep, "wait") EXCEPT !.polls = @ + 1]]
    /\ UNCHANGED <<ctorVars, lockVars, clientVars, dataVars>>

\* GetJobResult lines 189-206 against handleGetJob
MockResultGetJob(i) ==
    /\ inv[i].pc = "getjob"
    /\ LET r == Request("GET", JobPath(inv[i].job[1].id), "", <<>>)
           rep == handler(r)
       IN /\ Served(rep)
          /\ inv' = [inv EXCEPT ![i] =
                IF rep.code # 200
                THEN Ends(@, r, rep, Nil, Errorf("failed to get job: status"))
                ELSE [Goes(@, r, rep,
                           IF rep.data.status = JobStatusFinished
                           THEN "output" ELSE "logs")
                      EXCEPT !.result = <<[job |-> rep.data, output |-> <<>>,
                                           logs |-> <<>>]>>]]
    /\ UNCHANGED <<ctorVars, lockVars, clientVars, dataVars>>

\* GetJobResult lines 209-223 against handleGetOutput
MockResultGetOutput(i) ==
    /\ inv[i].pc = "output"
    /\ LET r == Request("GET", JobSubPath(inv[i].job[1].id, "output"), "", <<>>)
           rep == handler(r)
       IN /\ Served(rep)
          /\ inv' = [inv EXCEPT ![i] =
                IF rep.code = 200
                THEN [Goes(@, r, rep, "logs") EXCEPT !.result[1].output = rep.data]
                ELSE Goes(@, r, rep, "logs")]
    /\ UNCHANGED <<ctorVars, lockVars, clientVars, dataVars>>

\* GetJobResult lines 226-241 against handleGetLogs, and Process 285-295
MockResultGetLogs(i) ==
    /\ inv[i].pc = "logs"
    /\ LET r == Request("GET", JobSubPath(inv[i].job[1].id, "logs"), "", <<>>)
           rep == handler(r)
           res == IF rep.code = 200
                  THEN <<[inv[i].result[1] EXCEPT !.logs = rep.data]>>
                  ELSE inv[i].result
           failed == inv[i].finishedJob[1].status = JobStatusFailed
       IN /\ Served(rep)
          /\ inv' = [inv EXCEPT ![i] =
                Ends(@, r, rep, res,
                     IF failed THEN Errorf("job failed") ELSE NoErr)]
    /\ UNCHANGED <<ctorVars, lockVars, clientVars, dataVars>>

MockNext ==
    \E i \in Invs :
        \/ MockCreateJob(i)
        \/ MockUploadJobData(i)
        \/ MockSubmitJob(i)
        \/ MockWaitFetch(i)
        \/ MockResultGetJob(i)
        \/ MockResultGetOutput(i)
        \/ MockResultGetLogs(i)

MockSpec == MockInit /\ [][MockNext]_vars

----------------------------------------------------------------------------
\* The MockServer on its own: any party sends it any request, one at a time.

MaxJobs == 2

\* no call of client.go is running
ClientIdle ==
    /\ op = "Process"
    /\ jobType = "test/linecount"
    /\ fileOpened = "unopened"
    /\ pc = "unused"
    /\ cancelled = FALSE
    /\ cancelPc = "none"
    /\ callsAtCancel = 0
    /\ waitsAtCancel = 0
    /\ calls = <<>>
    /\ waits = 0
    /\ svcStatus = NoJob
    /\ svcErrMsg = Absent
    /\ svcErrCode = Absent
    /\ resp = [outcome |-> "none", snap |-> Nil]
    /\ job = Nil
    /\ waitRet = Nil
    /\ result = Nil
    /\ resultRet = Nil
    /\ ret = Nil
    /\ payload = <<>>
    /\ srcReads = 0
    /\ buf = <<>>
    /\ sentBody = Nil

\* a well-formed job id that no job has
UnknownId == "99"

\* what a request may put where the job id goes, and as its token
RequestIds == DOMAIN jobs \cup {UnknownId, ""}
RequestTokens == {jobs[id].uploadToken : id \in DOMAIN jobs} \cup {"", "bad-token"}

CreateRequests == {Request("POST", JobsPath, "", [type |-> t]) : t \in JobTypes}

UploadRequests ==
    {Request("POST", UploadPath(id), t, Multipart(d)) :
        id \in RequestIds, t \in RequestTokens, d \in MockPayloads}

SubmitRequests == {Request("POST", JobSubPath(id, "submit"), "", <<>>) : id \in RequestIds}

GetRequests ==
    {Request("GET", JobPath(id), "", <<>>) : id \in RequestIds}
    \cup {Request("GET", JobSubPath(id, what), "", <<>>) :
             id \in RequestIds, what \in {"output", "logs"}}

ServerInit ==
    /\ ClientIdle
    /\ MockUnused
    /\ CtorUnused
    /\ LockUnused

ServeCreateJob ==
    /\ Cardinality(DOMAIN jobs) < MaxJobs
    /\ \E r \in CreateRequests : Served(handler(r))
    /\ UNCHANGED <<inv, ctorVars, lockVars, clientVars, dataVars>>

ServeUpload ==
    /\ \E r \in UploadRequests : Served(handler(r))
    /\ UNCHANGED <<inv, ctorVars, lockVars, clientVars, dataVars>>

ServeSubmit ==
    /\ \E r \in SubmitRequests : Served(handler(r))
    /\ UNCHANGED <<inv, ctorVars, lockVars, clientVars, dataVars>>

ServeGet ==
    /\ \E r \in GetRequests : Served(handler(r))
    /\ UNCHANGED <<inv, ctorVars, lockVars, clientVars, dataVars>>

ServerNext == ServeCreateJob \/ ServeUpload \/ ServeSubmit \/ ServeGet

ServerSpec == ServerInit /\ [][ServerNext]_vars

----------------------------------------------------------------------------
\* NewBsubClient, and the requests a client built by it sends.

MaxSends == 2

APIKeys == {"", "key-1", "key-2"}
BaseURLs == {"", "https://custom.bsub.io"}
\* config.HTTPClient: nil or the caller's own client
HTTPClients == {Nil, <<"custom client">>}

Configs == [APIKey : APIKeys, BaseURL : BaseURLs, HTTPClient : HTTPClients]

DefaultBaseURL == "https://app.bsub.io"
\* http.DefaultClient
DefaultClient == <<"default client">>

\* the request editor registered by NewBsubClient:
\* req.Header.Set("Authorization", "Bearer "+config.APIKey)
AuthEditor(key) == [name |-> "Authorization", value |-> <<"Bearer ", key>>]

\* NewClientWithResponses(server, WithHTTPClient(c), WithRequestEditorFn(f)):
\* the generated client keeps what it is given
NewClientWithResponses(server, httpClient, editors) ==
    [val |-> <<[Server |-> server, Client |-> httpClient,
                RequestEditors |-> editors]>>,
     err |-> NoErr]

\* variant: the client is built without the request editor
NewBsubClient_NoEditor(cfg) ==
    IF cfg.APIKey = ""
    THEN [val |-> Nil, err |-> Errorf("API key is required")]
    ELSE LET baseURL == IF cfg.BaseURL = "" THEN DefaultBaseURL ELSE cfg.BaseURL
             httpClient == IF cfg.HTTPClient = Nil THEN DefaultClient
                           ELSE cfg.HTTPClient
             made == NewClientWithResponses(baseURL, httpClient, <<>>)
         IN IF made.err # NoErr
            THEN [val |-> Nil, err |-> Wrap("failed to create client", made.err)]
            ELSE [val |-> <<[ClientWithResponses |-> made.val[1],
                             apiKey |-> cfg.APIKey]>>,
                  err |-> NoErr]

\* variant: a configuration without a base URL is refused
NewBsubClient_NeedsBaseURL(cfg) ==
    IF cfg.APIKey = "" \/ cfg.BaseURL = ""
    THEN [val |-> Nil, err |-> Errorf("API key is required")]
    ELSE LET httpClient == IF cfg.HTTPClient = Nil THEN DefaultClient
                           ELSE cfg.HTTPClient
             made == NewClientWithResponses(cfg.BaseURL, httpClient,
                                            <<AuthEditor(cfg.APIKey)>>)
         IN IF made.err # NoErr
            THEN [val |-> Nil, err |-> Wrap("failed to create client", made.err)]
            ELSE [val |-> <<[ClientWithResponses |-> made.val[1],
                             apiKey |-> cfg.APIKey]>>,
                  err |-> NoErr]

NewBsubClient(cfg) ==
    IF cfg.APIKey = ""
    THEN [val |-> Nil, err |-> Errorf("API key is required")]
    ELSE LET baseURL == IF cfg.BaseURL = "" THEN DefaultBaseURL ELSE cfg.BaseURL
             httpClient == IF cfg.HTTPClient = Nil THEN DefaultClient
                           ELSE cfg.HTTPClient
             made == NewClientWithResponses(baseURL, httpClient,
                                            <<AuthEditor(cfg.APIKey)>>)
         IN IF made.err # NoErr
            THEN [val |-> Nil, err |-> Wrap("failed to create client", made.err)]
            ELSE [val |-> <<[ClientWithResponses |-> made.val[1],
                             apiKey |-> cfg.APIKey]>>,
                  err |-> NoErr]

\* the header an operation's request starts with
OwnHeader(name) ==
    IF name = "UploadJobData" THEN ("Content-Type" :> <<"multipart/form-data">>)
    ELSE IF name = "CreateJob" THEN ("Content-Type" :> <<"application/json">>)
    ELSE <<>>

\* the request editors of the client applied in turn to a header
RECURSIVE ApplyEditors(_, _)
ApplyEditors(editors, header) ==
    IF editors = <<>> THEN header
    ELSE ApplyEditors(Tail(editors),
                      (Head(editors).name :> Head(editors).value) @@ header)

\* the request of an operation as the client c puts it on the wire
Sent(c, name) ==
    [op |-> name, server |-> c.ClientWithResponses.Server,
     via |-> c.ClientWithResponses.Client,
     header |-> ApplyEditors(c.ClientWithResponses.RequestEditors, OwnHeader(name))]

CtorInit ==
    /\ ClientIdle
    /\ MockUnused
    /\ LockUnused
    /\ config \in Configs
    /\ client = Nil
    /\ wire = <<>>

\* client, err := NewBsubClient(config)
Construct ==
    /\ client = Nil
    /\ client' = <<[given |-> config] @@ NewBsubClient(config)>>
    /\ UNCHANGED <<config, wire, lockVars, mockVars, clientVars, dataVars>>

\* the caller puts another key into its Config value after the construction
ChangeConfig ==
    /\ client # Nil
    /\ wire = <<>>
    /\ \E key \in APIKeys \ {config.APIKey} :
          config' = [config EXCEPT !.APIKey = key]
    /\ UNCHANGED <<client, wire, lockVars, mockVars, clientVars, dataVars>>

\* one of the calls that client.go makes on the client
Send ==
    /\ client # Nil
    /\ client[1].err = NoErr
    /\ Len(wire) < MaxSends
    /\ \E name \in {"CreateJob", "UploadJobData", "SubmitJob", "GetJob",
                     "GetJobOutput", "GetJobLogs"} :
          wire' = Append(wire, Sent(client[1].val[1], name))
    /\ UNCHANGED <<config, client, lockVars, mockVars, clientVars, dataVars>>

CtorNext == Construct \/ ChangeConfig \/ Send

CtorSpec == CtorInit /\ [][CtorNext]_vars

----------------------------------------------------------------------------
\* The handlers of the MockServer step by step, each request served by a
\* goroutine of its own.  mu is a sync.RWMutex: w is the goroutine that has
\* called Lock (0 if none), held tells whether its Lock has returned, readers
\* are the goroutines holding the read lock.  A goroutine that has called
\* Lock keeps later RLock calls waiting and itself waits for the readers to
\* leave.

NumReq == 3
Slots == 1..NumReq

Idle ==
    [kind |-> "idle", id |-> NoId, token |-> "", type |-> "", pc |-> 0,
     job |-> NoId, code |-> 0]

\* the statements of a handler that take or release the lock or touch the
\* job table or a job record, in order; the first two are those of
\* MockServer.handler
Steps(kind) ==
    <<"RLock", "RUnlock">> \o
    CASE kind = "create" -> <<"Lock", "Store", "Unlock", "Encode">>
      [] kind = "upload" -> <<"Parse", "Lock", "Lookup", "Write", "Unlock">>
      [] kind = "submit" -> <<"Lock", "Lookup", "Write", "Unlock">>
      [] kind = "getjob" -> <<"RLock", "Lookup", "RUnlock", "Encode">>
      [] kind = "output" -> <<"RLock", "Lookup", "RUnlock", "ReadStatus">>
      [] kind = "logs" -> <<"RLock", "Lookup", "RUnlock", "ReadType">>

\* the statement goroutine h is about to execute
Instr(h) ==
    IF hs[h].kind \in {"idle", "done"} THEN "none" ELSE Steps(hs[h].kind)[hs[h].pc]

\* goroutine record s after its current statement; past the last statement
\* the handler has returned
Stepped(s) ==
    IF s.pc = Len(Steps(s.kind)) THEN [Idle EXCEPT !.kind = "done", !.code = s.code]
    ELSE [s EXCEPT !.pc = @ + 1]

\* goroutine record s returning at once with a status code
Returns(s, code) == [Idle EXCEPT !.kind = "done", !.code = code]

\* the job ids a requester can know: those of answered create requests
KnownIds ==
    {id \in DOMAIN jobs : ~\E g \in Slots : hs[g].kind = "create" /\ hs[g].job = id}

\* the requests that may arrive: create requests for the job type the mock
\* completes, uploads with the right token, a wrong one or none, and the
\* other requests for a known job or one that does not exist
Arrivals ==
    {[Idle EXCEPT !.kind = "create", !.type = "test/linecount", !.pc = 1,
                  !.code = 201]}
    \cup UNION {{[Idle EXCEPT !.kind = "upload", !.id = id, !.token = t,
                              !.pc = 1, !.code = 200] :
                    t \in {jobs[id].uploadToken, "bad-token"}} : id \in KnownIds}
    \cup {[Idle EXCEPT !.kind = "upload", !.id = UnknownId, !.token = t, !.pc = 1,
                       !.code = 200] : t \in {"bad-token", ""}}
    \cup {[Idle EXCEPT !.kind = k, !.id = id, !.pc = 1, !.code = 200] :
             k \in {"submit", "getjob"}, id \in KnownIds \cup {UnknownId}}
    \cup {[Idle EXCEPT !.kind = k, !.id = id, !.pc = 1, !.code = 200] :
             k \in {"output", "logs"}, id \in KnownIds}

LockInit ==
    /\ ClientIdle
    /\ CtorUnused
    /\ jobs = <<>>
    /\ uploadedData = <<>>
    /\ uuidCount = 0
    /\ inv = <<>>
    /\ mu = [w |-> 0, held |-> FALSE, readers |-> {}]
    /\ hs = [h \in Slots |-> Idle]

\* the server accepts a request and starts its handler
Arrive(h) ==
    /\ hs[h].kind = "idle"
    /\ \A g \in Slots : g < h => hs[g].kind # "idle"
    /\ \E r \in Arrivals : hs' = [hs EXCEPT ![h] = r]
    /\ UNCHANGED <<mu, mockVars, ctorVars, clientVars, dataVars>>

\* ms.mu.RLock()
DoRLock(h) ==
    /\ Instr(h) = "RLock"
    /\ mu.w = 0
    /\ mu' = [mu EXCEPT !.readers = @ \cup {h}]
    /\ hs' = [hs EXCEPT ![h] = Stepped(@)]
    /\ UNCHANGED <<mockVars, ctorVars, clientVars, dataVars>>

\* ms.mu.RUnlock()
DoRUnlock(h) ==
    /\ Instr(h) = "RUnlock"
    /\ mu' = [mu EXCEPT !.readers = @ \ {h}]
    /\ hs' = [hs EXCEPT ![h] = Stepped(@)]
    /\ UNCHANGED <<mockVars, ctorVars, clientVars, dataVars>>

\* ms.mu.Lock(): announce, then return once the readers have left
DoLock(h) ==
    /\ Instr(h) = "Lock"
    /\ IF mu.w = 0
       THEN /\ mu' = [mu EXCEPT !.w = h]
            /\ hs' = hs
       ELSE /\ mu.w = h
            /\ mu.readers = {}
            /\ mu' = [mu EXCEPT !.held = TRUE]
            /\ hs' = [hs EXCEPT ![h] = Stepped(@)]
    /\ UNCHANGED <<mockVars, ctorVars, clientVars, dataVars>>

\* ms.mu.Unlock(), called directly or deferred to the return
DoUnlock(h) ==
    /\ Instr(h) = "Unlock"
    /\ mu' = [mu EXCEPT !.w = 0, !.held = FALSE]
    /\ hs' = [hs EXCEPT ![h] = Stepped(@)]
    /\ UNCHANGED <<mockVars, ctorVars, clientVars, dataVars>>

\* handleUpload: the checks of the path and the token parameter
DoParse(h) ==
    /\ Instr(h) = "Parse"
    /\ hs' = [hs EXCEPT ![h] =
                IF ParseUUID(@.id) = NoId \/ @.token = ""
                THEN Returns(@, 400) ELSE Stepped(@)]
    /\ UNCHANGED <<mu, mockVars, ctorVars, clientVars, dataVars>>

\* variant: handleSubmit returns "Job not found" without releasing the lock
DoLookup_SubmitKeepsLock(h) ==
    /\ Instr(h) = "Lookup"
    /\ LET s == hs[h]
           exists == s.id \in DOMAIN jobs
           tokenOk == exists /\ jobs[s.id].uploadToken = s.token
       IN hs' = [hs EXCEPT ![h] =
                IF s.kind = "upload" /\ ~tokenOk
                THEN [s EXCEPT !.pc = Len(Steps(s.kind)),
                               !.code = IF exists THEN 401 ELSE 404]
                ELSE IF s.kind = "submit" /\ ~exists
                THEN Returns(s, 404)
                ELSE Stepped([s EXCEPT !.job = IF exists THEN s.id ELSE NoId])]
    /\ UNCHANGED <<mu, mockVars, ctorVars, clientVars, dataVars>>

\* job, exists := ms.jobs[jobID], with the checks that follow it under the
\* lock: handleUpload and handleSubmit go to their Unlock and return
DoLookup(h) ==
    /\ Instr(h) = "Lookup"
    /\ LET s == hs[h]
           exists == s.id \in DOMAIN jobs
           tokenOk == exists /\ jobs[s.id].uploadToken = s.token
       IN hs' = [hs EXCEPT ![h] =
                IF s.kind = "upload" /\ ~tokenOk
                THEN [s EXCEPT !.pc = Len(Steps(s.kind)),
                               !.code = IF exists THEN 401 ELSE 404]
                ELSE IF s.kind = "submit" /\ ~exists
                THEN [s EXCEPT !.pc = Len(Steps(s.kind)), !.code = 404]
                ELSE Stepped([s EXCEPT !.job = IF exists THEN s.id ELSE NoId])]
    /\ UNCHANGED <<mu, mockVars, ctorVars, clientVars, dataVars>>

\* handleCreateJob: ms.jobs[jobID] = job
DoStore(h) ==
    /\ Instr(h) = "Store"
    /\ LET jobID == NewUUID(1)
           made == [id |-> jobID, type |-> hs[h].type, status |-> JobStatusCreated,
                    uploadToken |-> NewUUID(2), dataSize |-> 0]
       IN /\ jobs' = (jobID :> made) @@ jobs
          /\ hs' = [hs EXCEPT ![h] = Stepped([@ EXCEPT !.job = jobID])]
    /\ uuidCount' = uuidCount + 2
    /\ UNCHANGED <<mu, uploadedData, inv, ctorVars, clientVars, dataVars>>

\* the assignments to the job record: handleUpload sets status, dataSize and
\* the stored data, handleSubmit sets status and updatedAt
DoWrite(h) ==
    /\ Instr(h) = "Write"
    /\ LET id == hs[h].job
       IN IF hs[h].kind = "upload"
          THEN /\ jobs' = [jobs EXCEPT ![id].status = JobStatusLoaded,
                                       ![id].dataSize = ByteLen(Multipart(FiveLines))]
               /\ uploadedData' = (id :> Multipart(FiveLines)) @@ uploadedData
          ELSE /\ jobs' = [jobs EXCEPT ![id].status =
                              IF jobs[id].type = "test/linecount"
                              THEN JobStatusFinished ELSE JobStatusPending]
               /\ uploadedData' = uploadedData
    /\ hs' = [hs EXCEPT ![h] = Stepped(@)]
    /\ UNCHANGED <<mu, uuidCount, inv, ctorVars, clientVars, dataVars>>

\* what follows the release of the lock: the return if the job does not
\* exist, else the reads of the job record (json encoding of the job; the
\* status test of handleGetOutput and its switch on the job type; the job
\* type for the logs)
DoRead(h) ==
    /\ Instr(h) \in {"Encode", "ReadStatus", "ReadType"}
    /\ hs' = [hs EXCEPT ![h] =
                IF @.kind # "create" /\ @.job = NoId
                THEN Returns(@, 404)
                ELSE IF Instr(h) = "ReadStatus"
                        /\ jobs[@.job].status # JobStatusFinished
                THEN Returns(@, 404)
                ELSE Stepped(@)]
    /\ UNCHANGED <<mu, mockVars, ctorVars, clientVars, dataVars>>

LockNext ==
    \E h \in Slots :
        \/ Arrive(h)
        \/ DoRLock(h)
        \/ DoRUnlock(h)
        \/ DoLock(h)
        \/ DoUnlock(h)
        \/ DoParse(h)
        \/ DoLookup(h)
        \/ DoStore(h)
        \/ DoWrite(h)
        \/ DoRead(h)

LockSpec == LockInit /\ [][LockNext]_vars

----------------------------------------------------------------------------
TypeOK ==
    /\ op \in TopLevelCalls
    /\ cancelled \in BOOLEAN
    /\ waits \in 0..MaxFetches
    /\ svcStatus \in Statuses \cup {NoJob}
    /\ svcErrMsg \in ErrMsgs
    /\ Len(ret) <= 1 /\ Len(waitRet) <= 1 /\ Len(job) <= 1 /\ Len(result) <= 1
    /\ Len(resultRet) <= 1
    /\ jobType \in JobTypes
    /\ svcErrCode \in ErrCodes
    /\ fileOpened \in {"unopened", "ok", "failed"}
    /\ pc = "done" <=> ret # Nil

----------------------------------------------------------------------------
\* Properties

IsDone == pc = "done"
WaitReturned == waitRet # Nil
LastWaitFetch == WaitFetches[Len(WaitFetches)]
FetchedTerminal(c) == c.outcome = "ok" /\ c.snap[1].status \in {"finished", "failed"}
OkBefore(name, i) ==
    \E j \in 1..(i - 1) : calls[j].op = name /\ calls[j].outcome = "ok"
CountOp(name) == Cardinality({i \in 1..Len(calls) : calls[i].op = name})

\* C1: in a CreateAndSubmitJob or Process/ProcessFile workflow, create, upload
\* and submit are each issued at most once and in this order, each only after
\* the previous one succeeded; a call that returns no error has issued all
\* three; no GetJob, GetJobOutput or GetJobLogs is issued before submit
\* succeeded.
C1_CallOrder ==
    op \in WorkflowCalls =>
      /\ CountOp("CreateJob") <= 1
      /\ CountOp("UploadJobData") <= 1
      /\ CountOp("SubmitJob") <= 1
      /\ \A i \in 1..Len(calls) :
            /\ calls[i].op = "CreateJob" => i = 1
            /\ calls[i].op = "UploadJobData" => i = 2 /\ OkBefore("CreateJob", i)
            /\ calls[i].op = "SubmitJob" => i = 3 /\ OkBefore("UploadJobData", i)
            /\ calls[i].op \in {"GetJob", "GetJobOutput", "GetJobLogs"}
                  => i > 3 /\ OkBefore("SubmitJob", i)
      /\ (IsDone /\ ret[1].err = NoErr) =>
            /\ Len(calls) >= 3
            /\ \A i \in 1..3 : calls[i].outcome = "ok"

C1_Witness ==
    /\ op = "Process" /\ IsDone /\ ret[1].err = NoErr
    /\ Len(calls) = 6 /\ calls[6].op = "GetJobLogs"

\* C2: a job returned by WaitForJob with a nil error has status Finished or
\* Failed.
C2_WaitReturnsTerminal ==
    (WaitReturned /\ waitRet[1].err = NoErr) =>
        /\ waitRet[1].job # Nil
        /\ waitRet[1].job[1].status \in {"finished", "failed"}

C2_Witness ==
    /\ WaitReturned /\ waitRet[1].err = NoErr
    /\ waitRet[1].job[1].status = "finished" /\ waits >= 1

\* C3: when every status fetch of WaitForJob succeeded with a non-terminal
\* status, WaitForJob has returned only if the context is done, and then with
\* a nil job and the context's error.
C3_OnlyCancelEndsWait ==
    (/\ WaitReturned
     /\ \A i \in 1..Len(WaitFetches) :
           WaitFetches[i].outcome = "ok" /\ ~FetchedTerminal(WaitFetches[i]))
    => /\ cancelled
       /\ waitRet[1] = [job |-> Nil, err |-> CtxErr]

C3_Witness ==
    /\ WaitReturned /\ Len(WaitFetches) >= 2
    /\ \A i \in 1..Len(WaitFetches) :
          WaitFetches[i].outcome = "ok" /\ ~FetchedTerminal(WaitFetches[i])

\* C4: the first fetch of WaitForJob that reports Finished or Failed is its
\* last fetch; if it is the k-th, k-1 wait intervals have elapsed, the only
\* step left is the return, and the value returned is that snapshot with a
\* nil error.
C4_FirstTerminalReturned ==
    \A k \in 1..Len(WaitFetches) :
        FetchedTerminal(WaitFetches[k]) =>
            /\ k = Len(WaitFetches)
            /\ waits = k - 1
            /\ ~WaitReturned => pc = "wf_check"
            /\ WaitReturned => waitRet[1] = [job |-> WaitFetches[k].snap, err |-> NoErr]

C4_Witness ==
    /\ WaitReturned /\ Len(WaitFetches) = 3 /\ waits = 2
    /\ FetchedTerminal(WaitFetches[3])

\* C5: the polling loop leaves the check of a successfully fetched snapshot
\* towards the wait interval exactly when the status is none of Finished and
\* Failed, and returns otherwise.
C5_TerminalPredicateExact ==
    [][(pc = "wf_check" /\ resp.outcome = "ok" /\ pc' # pc) =>
          /\ pc' = "wf_select2" <=> resp.snap[1].status \notin {"finished", "failed"}
          /\ waitRet' # Nil <=> resp.snap[1].status \in {"finished", "failed"}]_vars

C5_Witness ==
    pc = "wf_select2" /\ resp.snap[1].status = "processing" /\ waits = 1

\* C6: a terminal snapshot fetched by WaitForJob is returned with a nil error
\* although the context is done by the time the status is examined.
C6_TerminalNotDiscarded ==
    (/\ cancelled /\ WaitReturned
     /\ Len(WaitFetches) >= 1 /\ FetchedTerminal(LastWaitFetch))
    => waitRet[1] = [job |-> LastWaitFetch.snap, err |-> NoErr]

C6_Witness ==
    /\ cancelPc = "wf_check" /\ WaitReturned
    /\ FetchedTerminal(LastWaitFetch) /\ waitRet[1].err = NoErr

\* C7: when the context is done at the head of a loop iteration of WaitForJob
\* (on entry included), the call returns a nil job and the context's error
\* and issues no status fetch.
C7_CancelledAtLoopHead ==
    (cancelPc = "wf_select1" \/ (cancelPc = "entry" /\ op = "WaitForJob")) =>
        /\ Len(calls) = callsAtCancel
        /\ pc \in {"wf_select1", "done"}
        /\ WaitReturned => waitRet[1] = [job |-> Nil, err |-> CtxErr]

C7_Witness ==
    cancelPc = "wf_select1" /\ WaitReturned /\ Len(WaitFetches) >= 1

\* C8: when the context becomes done during the wait interval, the interval
\* does not elapse, no further fetch is issued and WaitForJob returns a nil
\* job and the context's error.
C8_CancelDuringWait ==
    cancelPc = "wf_select2" =>
        /\ Len(calls) = callsAtCancel
        /\ waits = waitsAtCancel
        /\ pc \in {"wf_select2", "done"}
        /\ WaitReturned => waitRet[1] = [job |-> Nil, err |-> CtxErr]

C8_Witness ==
    cancelPc = "wf_select2" /\ WaitReturned /\ Len(WaitFetches) = 2

\* C9: once the context is done, the call lets no polling interval elapse and
\* issues at most one more round trip, which fails with the context's error.
C9_AbortAtNextSuspension ==
    cancelled =>
        /\ waits = waitsAtCancel
        /\ Len(calls) <= callsAtCancel + 1
        /\ \A i \in (callsAtCancel + 1)..Len(calls) : calls[i].outcome = "ctxerr"

C9_Witness ==
    /\ cancelPc = "gr_output" /\ IsDone
    /\ Len(calls) = callsAtCancel + 1 /\ calls[Len(calls)].op = "GetJobOutput"

\* C10: a status fetch of WaitForJob that fails (transport error, status other
\* than 200, or no job payload) is its last fetch; no interval follows it and
\* WaitForJob returns a nil job and an error naming the fetch.
C10_FetchFailureEndsWait ==
    \A k \in 1..Len(WaitFetches) :
        WaitFetches[k].outcome # "ok" =>
            /\ k = Len(WaitFetches)
            /\ waits = k - 1
            /\ ~WaitReturned => pc = "wf_check"
            /\ WaitReturned =>
                  /\ waitRet[1].job = Nil
                  /\ waitRet[1].err # NoErr
                  /\ waitRet[1].err[1] \in
                        {"failed to get job status",
                         "failed to get job status: status",
                         "unexpected response format"}

C10_Witness ==
    /\ WaitReturned /\ Len(WaitFetches) = 2
    /\ WaitFetches[2].outcome = "nodata"

ResultReturned == resultRet # Nil
ResultFetchOk == Len(ResultFetches) >= 1 /\ ResultFetches[1].outcome = "ok"
ProcessSawFailed ==
    /\ op \in ProcessCalls /\ IsDone /\ WaitReturned
    /\ waitRet[1].err = NoErr /\ waitRet[1].job[1].status = "failed"
StepLabels(name) ==
    IF name = "CreateJob"
    THEN {"failed to create job", "failed to create job: status",
          "unexpected response format", "no upload token in response"}
    ELSE IF name = "UploadJobData"
    THEN {"failed to upload data", "failed to upload data: status"}
    ELSE {"failed to submit job", "failed to submit job: status"}

\* C11: when WaitForJob fetches a snapshot with status Failed it returns that
\* snapshot with a nil error, error code and error message being those of the
\* fetched job.
C11_FailedIsSuccessfulWait ==
    (/\ WaitReturned /\ Len(WaitFetches) >= 1
     /\ LastWaitFetch.outcome = "ok" /\ LastWaitFetch.snap[1].status = "failed")
    => /\ waitRet[1].err = NoErr
       /\ waitRet[1].job # Nil
       /\ waitRet[1].job[1].status = "failed"
       /\ waitRet[1].job[1].errorCode = LastWaitFetch.snap[1].errorCode
       /\ waitRet[1].job[1].errorMessage = LastWaitFetch.snap[1].errorMessage

C11_Witness ==
    /\ WaitReturned /\ waitRet[1].err = NoErr
    /\ waitRet[1].job[1].status = "failed"
    /\ waitRet[1].job[1].errorCode = "TIMEOUT"
    /\ waitRet[1].job[1].errorMessage = "boom"

\* C12: a CreateAndSubmitJob that returns no error returns the snapshot of
\* the create response: same identifier, the requested type, status Created,
\* while the job on the service is past Created.
C12_ReturnsCreationSnapshot ==
    (op \in {"CreateAndSubmitJob", "CreateAndSubmitJobFromFile"}
     /\ IsDone /\ ret[1].err = NoErr)
    => /\ ret[1].val # Nil
       /\ ret[1].val = calls[1].snap
       /\ ret[1].val[1].id = TheJobId /\ ret[1].val[1].id # ""
       /\ ret[1].val[1].type = jobType
       /\ ret[1].val[1].status = "created"
       /\ svcStatus \in Statuses /\ Rank(svcStatus) > Rank("created")

C12_Witness ==
    /\ op = "CreateAndSubmitJob" /\ IsDone /\ ret[1].err = NoErr
    /\ jobType = "pandoc_md" /\ svcStatus = "pending"

\* C13: a create, upload or submit that does not succeed is the last remote
\* call of CreateAndSubmitJob, which returns a nil job and an error of that
\* step.
C13_ShortCircuit ==
    op \in WorkflowCalls =>
        \A i \in 1..Len(calls) :
            (calls[i].by = "CreateAndSubmitJob" /\ calls[i].outcome # "ok") =>
                /\ i = Len(calls)
                /\ IsDone
                /\ ret[1].val = Nil
                /\ ret[1].err # NoErr
                /\ ret[1].err[1] \in StepLabels(calls[i].op)

C13_Witness ==
    /\ IsDone /\ Len(calls) = 3
    /\ calls[3].op = "SubmitJob" /\ calls[3].outcome = "badstatus"

\* C14: when the file cannot be opened, CreateAndSubmitJobFromFile and
\* ProcessFile return a nil result and the open error, no remote call is
\* issued and no job exists on the service.
C14_OpenFailure ==
    fileOpened = "failed" =>
        /\ IsDone
        /\ ret[1].val = Nil
        /\ Len(ret[1].err) = 2 /\ ret[1].err[1] = "failed to open file"
        /\ calls = <<>>
        /\ svcStatus = NoJob

C14_Witness ==
    fileOpened = "failed" /\ op = "ProcessFile" /\ IsDone

\* C15: once its job fetch succeeded, GetJobResult returns a non-nil
\* JobResult and a nil error whatever the output and logs fetches do.
C15_ResultNeverFailsAfterFetch ==
    (ResultReturned /\ ResultFetchOk) =>
        resultRet[1].val # Nil /\ resultRet[1].err = NoErr

\* C16: once its job fetch succeeded, GetJobResult does not return without
\* having issued a logs fetch.
C16_LogsAlwaysFetched ==
    (ResultReturned /\ ResultFetchOk) =>
        \E i \in 1..Len(ResultFetches) : ResultFetches[i].op = "GetJobLogs"

\* C17: GetJobResult on a job fetched as Failed returns a nil error and a
\* JobResult with empty output whose Job is the fetched snapshot; an output
\* fetch is issued only right after a job fetch that reported Finished.
C17_FailedJobResult ==
    /\ (ResultReturned /\ ResultFetchOk
        /\ ResultFetches[1].snap[1].status = "failed")
       => /\ resultRet[1].err = NoErr
          /\ resultRet[1].val # Nil
          /\ resultRet[1].val[1].output = ""
          /\ resultRet[1].val[1].job = ResultFetches[1].snap[1]
    /\ \A i \in 1..Len(ResultFetches) :
          ResultFetches[i].op = "GetJobOutput" =>
              /\ i = 2
              /\ ResultFetches[1].outcome = "ok"
              /\ ResultFetches[1].snap[1].status = "finished"

C17_Witness ==
    /\ ResultReturned /\ ResultFetchOk
    /\ ResultFetches[1].snap[1].status = "failed"
    /\ resultRet[1].val[1].job.errorCode = "TIMEOUT"
    /\ resultRet[1].val[1].job.errorMessage = "boom"
    /\ resultRet[1].val[1].logs = "log-text"

\* C18: for a Finished job, an output response with an error status leaves
\* the output empty and the logs are still fetched; a logs response with an
\* error status leaves the logs empty beside the bytes of the output; both
\* times GetJobResult returns a nil error.
C18_IndependentRetrieval ==
    (/\ ResultReturned /\ ResultFetchOk
     /\ ResultFetches[1].snap[1].status = "finished"
     /\ Len(ResultFetches) >= 2)
    => /\ ResultFetches[2].outcome = "badstatus" =>
             /\ Len(ResultFetches) = 3
             /\ ResultFetches[3].op = "GetJobLogs"
             /\ resultRet[1].err = NoErr
             /\ resultRet[1].val[1].output = ""
             /\ resultRet[1].val[1].logs =
                   IF ResultFetches[3].outcome = "ok" THEN "log-text" ELSE ""
       /\ (/\ ResultFetches[2].outcome = "ok"
           /\ Len(ResultFetches) = 3
           /\ ResultFetches[3].outcome = "badstatus") =>
             /\ resultRet[1].err = NoErr
             /\ resultRet[1].val[1].output = "output-bytes"
             /\ resultRet[1].val[1].logs = ""

C18_Witness ==
    /\ ResultReturned /\ Len(ResultFetches) = 3
    /\ ResultFetches[2].outcome = "ok" /\ ResultFetches[3].outcome = "badstatus"
    /\ resultRet[1].val[1].output = "output-bytes"

\* C19: when the job fetch of GetJobResult fails, it is the only call
\* GetJobResult issues and the return is a nil result with an error.
C19_ResultFetchFailure ==
    (Len(ResultFetches) >= 1 /\ ResultFetches[1].outcome # "ok") =>
        /\ Len(ResultFetches) = 1
        /\ ResultReturned
        /\ resultRet[1].val = Nil
        /\ resultRet[1].err # NoErr
        /\ resultRet[1].err[1] \in
              {"failed to get job", "failed to get job: status",
               "unexpected response format"}

C19_Witness ==
    /\ op = "GetJobResult" /\ IsDone
    /\ Len(ResultFetches) = 1 /\ ResultFetches[1].outcome = "nodata"

C21_ErrorEmbedsMessage ==
    ProcessSawFailed =>
        ret[1].err = IF waitRet[1].job[1].errorMessage # Absent
                     THEN <<"job failed", waitRet[1].job[1].errorMessage>>
                     ELSE Errorf("job failed")

ProcessReturnedOk == op \in ProcessCalls /\ IsDone /\ ret[1].err = NoErr

\* C22 as stated: a Process/ProcessFile that returns a nil error returns a
\* non-nil JobResult whose Job has status Finished, and the wait did not see
\* Failed.
C22_NilErrorMeansFinished ==
    ProcessReturnedOk =>
        /\ ret[1].val # Nil
        /\ ret[1].val[1].job.status = "finished"
        /\ waitRet[1].job[1].status # "failed"

\* C22 amended: a Process/ProcessFile that returns a nil error returns a
\* non-nil JobResult; the wait saw Finished, never Failed, the job on the
\* service is Finished, and the Job of the result is the snapshot fetched
\* anew by GetJobResult, whose status is Finished whenever it carries one.
C22_NilErrorMeansFinishedAmended ==
    ProcessReturnedOk =>
        /\ ret[1].val # Nil
        /\ waitRet[1].job[1].status = "finished"
        /\ svcStatus = "finished"
        /\ ret[1].val[1].job = ResultFetches[1].snap[1]
        /\ ret[1].val[1].job.status \in {"finished", Absent}

C22_Witness ==
    /\ ProcessReturnedOk /\ ret[1].val[1].job.status = "finished"
    /\ ret[1].val[1].output = "output-bytes"

WaitPcs == {"wf_select1", "wf_fetch", "wf_check", "wf_select2"}

\* the deadline passed while WaitForJob was polling a job that the service
\* never brought to a terminal status and every answered fetch succeeded
DeadlineDuringWait ==
    /\ op \in ProcessCalls \cup {"WaitForJob"}
    /\ IsDone
    /\ cancelPc \in WaitPcs \/ (cancelPc = "entry" /\ op = "WaitForJob")
    /\ svcStatus \notin TerminalStatuses
    /\ \A i \in 1..Len(WaitFetches) : WaitFetches[i].outcome \in {"ok", "ctxerr"}

\* C23: when the deadline of a Process/ProcessFile or WaitForJob call passes
\* while the job is stuck in a non-terminal status, the call returns a nil
\* result and an error that carries the context's error; GetJobResult is
\* not called.
C23_DeadlineOnStuckJob ==
    DeadlineDuringWait =>
        /\ ret[1].val = Nil
        /\ IsCtxErr(ret[1].err)
        /\ ResultFetches = <<>>
        /\ op \in ProcessCalls => ret[1].err[1] = "failed waiting for job"

C23_Witness ==
    /\ DeadlineDuringWait /\ op = "Process" /\ cancelPc = "wf_select2"
    /\ Len(WaitFetches) = 2 /\ svcStatus = "processing"

\* what Process (lines 272-296) returns, from what its helpers returned
ProcessReturn ==
    IF ~WaitReturned THEN ret[1]
    ELSE IF waitRet[1].err # NoErr
    THEN [val |-> Nil, err |-> Wrap("failed waiting for job", waitRet[1].err)]
    ELSE IF waitRet[1].job[1].status = JobStatusFailed
    THEN [val |-> resultRet[1].val,
          err |-> IF resultRet[1].val # Nil
                     /\ waitRet[1].job[1].errorMessage # Absent
                  THEN <<"job failed", waitRet[1].job[1].errorMessage>>
                  ELSE Errorf("job failed")]
    ELSE resultRet[1]

PollingTerminalJob ==
    /\ pc \in WaitPcs
    /\ ~cancelled
    /\ svcStatus \in TerminalStatuses
    /\ Len(WaitFetches) < MaxFetches

\* the context is done, or the last status fetch failed or carried no status
WaitExcused ==
    \/ cancelled
    \/ /\ Len(WaitFetches) >= 1
       /\ \/ LastWaitFetch.outcome # "ok"
          \/ LastWaitFetch.snap[1].status = Absent

WaitReturnedTerminal ==
    /\ WaitReturned
    /\ waitRet[1].err = NoErr
    /\ waitRet[1].job = LastWaitFetch.snap
    /\ waitRet[1].job[1].status = svcStatus

\* C30: under fairness of the polling loop, once the job is Finished or
\* Failed on the service, WaitForJob eventually returns that terminal
\* snapshot with a nil error, unless the context is cancelled or a status
\* fetch fails or reports no status.
C30_WaitEventuallyReturns ==
    PollingTerminalJob ~> (WaitReturnedTerminal \/ WaitExcused)

C30_Witness ==
    /\ op = "WaitForJob" /\ IsDone /\ ~cancelled /\ waits = 2
    /\ WaitReturnedTerminal /\ ret[1].val[1].status = "failed"

InvDone(i) == inv[i].pc = "done"
\* the job of the create response of invocation i
Made(i) == inv[i].reqs[1].data
\* the result invocation i returned
Returned(i) == inv[i].ret[1]

\* C24: in every workflow the upload request names the job and carries the
\* upload token of that workflow's own create response, and the submit
\* request and every status, output and logs request name that same job.
C24_OwnIdAndToken ==
    \A i \in Invs : \A k \in 1..Len(inv[i].reqs) :
        LET q == inv[i].reqs[k].req
        IN /\ k = 1 => q.path = JobsPath
           /\ k = 2 => /\ q.path = UploadPath(Made(i).id)
                       /\ q.token = Made(i).uploadToken
                       /\ q.token # ""
           /\ k = 3 => q.path = JobSubPath(Made(i).id, "submit")
           /\ k > 3 => q.path \in {JobPath(Made(i).id),
                                   JobSubPath(Made(i).id, "output"),
                                   JobSubPath(Made(i).id, "logs")}

C24_Witness ==
    /\ InvDone(1) /\ InvDone(2)
    /\ Len(inv[2].reqs) = 7 /\ inv[2].reqs[7].req.path[5] = "logs"
    /\ Made(2).id = "1" /\ Made(1).id = "3"

\* C26: the output that a Process of a payload as a test/linecount job gets
\* from the mock service is the decimal line count of the payload: its
\* newlines, plus one when it is not empty and does not end with a newline;
\* 5 for the five-line payload.
C26_LineCountOfPayload ==
    \A i \in Invs :
        (InvDone(i) /\ Returned(i).err = NoErr
         /\ inv[i].jobType = "test/linecount") =>
            /\ Returned(i).val[1].output = LineCountOutput(inv[i].payload)
            /\ inv[i].payload = FiveLines => Returned(i).val[1].output = <<"5">>

\* C27: after a successful upload by CreateAndSubmitJob the dataSize of the
\* job on the service is the byte count of the caller's payload.
C27_DataSizeIsPayloadSize ==
    \A i \in Invs :
        (Len(inv[i].reqs) >= 2 /\ inv[i].reqs[2].code = 200) =>
            jobs[Made(i).id].dataSize = ByteLen(inv[i].payload)

\* C28: under every interleaving of the invocations, no two of them have the
\* same job, each request of an invocation names the job that invocation
\* created and is accepted, the mock keeps under that job the body that
\* invocation uploaded, and an invocation that returns returns its own job
\* with the output of its own upload.
C28_Isolation ==
    /\ \A i, j \in Invs :
          (i # j /\ inv[i].job # Nil /\ inv[j].job # Nil) =>
              inv[i].job[1].id # inv[j].job[1].id
    /\ \A i \in Invs : \A k \in 2..Len(inv[i].reqs) :
          /\ inv[i].reqs[k].req.path[4] = Made(i).id
          /\ inv[i].reqs[k].code = 200
    /\ \A i \in Invs :
          Len(inv[i].reqs) >= 2 =>
              /\ Made(i).id \in DOMAIN uploadedData
              /\ uploadedData[Made(i).id] = Multipart(inv[i].payload)
              /\ jobs[Made(i).id].type = inv[i].jobType
    /\ \A i \in Invs :
          InvDone(i) =>
              /\ Returned(i).err = NoErr
              /\ Returned(i).val[1].job.id = Made(i).id
              /\ Returned(i).val[1].job.type = inv[i].jobType
              /\ Returned(i).val[1].job.status = JobStatusFinished
              /\ Returned(i).val[1].job.dataSize = ByteLen(Multipart(inv[i].payload))
              /\ Returned(i).val[1].output =
                    LineCountOutput(Multipart(inv[i].payload))

C28_Witness ==
    /\ InvDone(1) /\ InvDone(2)
    /\ inv[1].payload = FiveLines /\ inv[2].payload = <<>>
    /\ Returned(1).val[1].output = <<"1", "0">>
    /\ Returned(2).val[1].output = <<"6">>
    /\ Made(2).id = "1"

----------------------------------------------------------------------------
\* the response WaitForJob is looking at is a snapshot without a status
CheckingStatuslessSnapshot ==
    /\ pc = "wf_check"
    /\ resp.outcome = "ok"
    /\ resp.snap # Nil
    /\ resp.snap[1].status = Absent

\* C40: WaitForJob never returns a snapshot whose status is absent; having
\* fetched one, its next step is the wait interval (from which only the
\* timer leads to the next fetch), and it returns nothing at that step.
C40_StatuslessIsNonTerminal ==
    /\ [](WaitReturned /\ waitRet[1].job # Nil
            => waitRet[1].job[1].status # Absent)
    /\ [][CheckingStatuslessSnapshot /\ pc' # pc
            => pc' = "wf_select2" /\ waitRet' = waitRet /\ ret' = ret]_vars
    /\ [][pc = "wf_select2" /\ pc' # pc /\ ~cancelled
            => pc' = "wf_select1" /\ waits' = waits + 1]_vars

\* a second fetch was made after a snapshot without a status
C40_Witness ==
    /\ op \in {"WaitForJob", "Process"}
    /\ Len(WaitFetches) >= 2
    /\ WaitFetches[1].outcome = "ok"
    /\ WaitFetches[1].snap[1].status = Absent
    /\ waits >= 1

----------------------------------------------------------------------------
\* the operations of the service that client.go calls
ServiceOps ==
    {"CreateJob", "UploadJobData", "SubmitJob", "GetJob", "GetJobOutput",
     "GetJobLogs"}

\* the workflow ended with an error right after the call named step failed
FailedAt(step) ==
    /\ op \in {"CreateAndSubmitJob", "Process"}
    /\ IsDone
    /\ ret[1].err # NoErr
    /\ waitRet = Nil
    /\ calls # <<>>
    /\ calls[Len(calls)].op = step
    /\ calls[Len(calls)].outcome # "ok"

\* Process ended because its wait step failed
FailedAtWait ==
    /\ op = "Process"
    /\ IsDone
    /\ WaitReturned
    /\ waitRet[1].err # NoErr

\* C39: CreateAndSubmitJob and Process call nothing but the six operations
\* of the service (no cancel, no delete); when the workflow fails at the
\* upload, the submit or the wait step, the failing step is the last thing
\* it did, the job is still registered in the status it had reached, and
\* the caller gets nil.
C39_NoCleanupOnFailure ==
    /\ op \in {"CreateAndSubmitJob", "Process"}
          => \A k \in 1..Len(calls) : calls[k].op \in ServiceOps
    /\ FailedAt("UploadJobData")
          => /\ svcStatus \in {JobStatusCreated, JobStatusLoaded}
             /\ calls[Len(calls)].outcome = "badstatus" => svcStatus = JobStatusCreated
             /\ ret[1].val = Nil
    /\ FailedAt("SubmitJob")
          => /\ svcStatus \in {JobStatusLoaded, JobStatusPending}
             /\ calls[Len(calls)].outcome = "badstatus" => svcStatus = JobStatusLoaded
             /\ ret[1].val = Nil
    /\ FailedAtWait
          => /\ svcStatus \in Statuses
             /\ Rank(svcStatus) >= Rank(JobStatusPending)
             /\ resultRet = Nil
             /\ \A k \in 1..Len(calls) : calls[k].by # "GetJobResult"
             /\ ret[1].val = Nil

\* a workflow failed at the submit step after the upload had gone through
C39_Witness ==
    /\ FailedAt("SubmitJob")
    /\ svcStatus = JobStatusLoaded
    /\ ret[1].val = Nil

----------------------------------------------------------------------------
\* the positions of an invocation inside WaitForJob and GetJobResult
ObservingPcs == {"wait", "getjob", "output", "logs"}

\* C33: a step of WaitForJob or GetJobResult sends a GET request and leaves
\* the job table and the uploaded data of the service as they were.
C33_ObserversOnlyRead ==
    [][\A i \in DOMAIN inv :
          inv[i].pc \in ObservingPcs /\ inv'[i] # inv[i]
          => /\ jobs' = jobs
             /\ uploadedData' = uploadedData
             /\ Len(inv'[i].reqs) = Len(inv[i].reqs) + 1
             /\ inv'[i].reqs[Len(inv'[i].reqs)].req.method = "GET"]_vars

\* an invocation went through its wait and all three fetches of the result
\* while the job of another invocation was still to be uploaded
C33_Witness ==
    \E i, k \in DOMAIN inv :
        /\ InvDone(i)
        /\ Len(inv[i].reqs) >= 7
        /\ inv[k].pc = "upload"
        /\ jobs[inv[k].job[1].id].status = JobStatusCreated

----------------------------------------------------------------------------
\* the job an upload or submit request names
NamedJob(r) == IF r.path[3] = "upload" THEN r.path[4] ELSE JobIdAfterJobs(r.path)

\* the request names an existing job and carries that job's upload token
ValidUpload(r) ==
    /\ NamedJob(r) \in DOMAIN jobs
    /\ r.token = jobs[NamedJob(r)].uploadToken

\* C34: an upload request changes the job table only if it names an existing
\* job and its token is that job's upload token, and then it moves that job,
\* and no other, to Loaded with the size of the body; every other upload
\* request is answered with an error status and changes no job record and no
\* stored data.
C34_UploadNeedsToken ==
    \A r \in UploadRequests :
        LET rep == handler(r)
        IN IF ValidUpload(r)
           THEN /\ rep.code = 200
                /\ rep.jobs = [jobs EXCEPT ![NamedJob(r)].status = JobStatusLoaded,
                                           ![NamedJob(r)].dataSize = ByteLen(r.body)]
           ELSE /\ rep.code >= 400
                /\ rep.jobs = jobs
                /\ rep.uploadedData = uploadedData

\* one job is Loaded after its upload while another, whose token a request
\* could try on it or for which the first job's token could be tried, is
\* still Created
C34_Witness ==
    \E id, other \in DOMAIN jobs :
        /\ jobs[id].status = JobStatusLoaded
        /\ jobs[id].dataSize = ByteLen(Multipart(FiveLines))
        /\ id \in DOMAIN uploadedData
        /\ jobs[other].status = JobStatusCreated
        /\ jobs[other].dataSize = 0

\* C35: once a job is Finished or Failed, no request changes its status.
C35_TerminalIsAbsorbing ==
    [][\A id \in DOMAIN jobs :
          jobs[id].status \in TerminalStatuses
          => jobs'[id].status = jobs[id].status]_vars

\* C37: a submit request changes a job only if that job is Loaded, and a
\* submit for a job that is still Created is answered with an error status.
C37_SubmitNeedsData ==
    \A r \in SubmitRequests :
        LET rep == handler(r)
        IN /\ rep.jobs # jobs => jobs[NamedJob(r)].status = JobStatusLoaded
           /\ (NamedJob(r) \in DOMAIN jobs
               /\ jobs[NamedJob(r)].status = JobStatusCreated)
              => rep.code >= 400 /\ rep.jobs = jobs

----------------------------------------------------------------------------
\* C31: every request sent by a client that NewBsubClient built carries the
\* Authorization header "Bearer " followed by the API key the client was
\* configured with.
C31_BearerOnEveryRequest ==
    \A k \in 1..Len(wire) :
        /\ "Authorization" \in DOMAIN wire[k].header
        /\ wire[k].header["Authorization"] = <<"Bearer ", client[1].given.APIKey>>
        /\ client[1].given.APIKey # ""

\* an upload and a fetch were sent by a client whose caller has changed its
\* Config value since
C31_Witness ==
    /\ Len(wire) = 2
    /\ wire[1].op = "UploadJobData"
    /\ wire[2].op = "GetJobOutput"
    /\ config.APIKey # client[1].given.APIKey

----------------------------------------------------------------------------
HoldsWrite(h) == mu.w = h /\ mu.held
HoldsRead(h) == h \in mu.readers

\* goroutine h is about to read fields of a job record that goroutine g,
\* inside its critical section, is about to assign
ReadsWhileWriting(h, g) ==
    /\ h # g
    /\ Instr(h) \in {"Encode", "ReadStatus"}
    /\ ~HoldsRead(h) /\ ~HoldsWrite(h)
    /\ HoldsWrite(g)
    /\ Instr(g) = "Write"
    /\ hs[g].job = hs[h].job

\* C36: no handler reads or serialises a job record without the lock while
\* another handler, holding the lock, is writing that record.
C36_NoReadDuringWrite ==
    \A h, g \in DOMAIN hs : ~ReadsWhileWriting(h, g)

\* goroutine h is serving a request
Serving(h) == hs[h].kind \notin {"idle", "done"}

\* C38: the lock is held, in either mode, only by handlers that have not
\* returned yet, and as long as a request is being served some handler can
\* take its next step: no Lock or RLock call waits for a lock that nobody
\* is going to release.  Every handler has finitely many steps, so each
\* waiting call returns in the end.
C38_LockAlwaysReleased ==
    /\ \A h \in DOMAIN hs : HoldsRead(h) \/ mu.w = h => Serving(h)
    /\ (\E h \in DOMAIN hs : Serving(h))
          => ENABLED (\E h \in Slots :
                        \/ DoRLock(h) \/ DoRUnlock(h) \/ DoLock(h) \/ DoUnlock(h)
                        \/ DoParse(h) \/ DoLookup(h) \/ DoStore(h) \/ DoWrite(h)
                        \/ DoRead(h))

\* an upload with a wrong token was answered with its error status, and the
\* lock is free for a later request, which is now inside its critical
\* section
C38_Witness ==
    \E b, c \in DOMAIN hs :
        /\ hs[b].kind = "done" /\ hs[b].code = 401
        /\ HoldsWrite(c)
        /\ Instr(c) = "Write"

====
